---- MODULE Spec2Model ----
(***************************************************************************)
(* A model of pulsar's deferred engine (pulsar/async/defer.py) and of the  *)
(* protocol pipeline on top of it (pulsar/async/transports/protocols.py).  *)
(*                                                                         *)
(* Python objects live in a heap: Deferreds are the elements of the        *)
(* sequence defs, Failures those of the sequence fails, and a value is a   *)
(* pair <<tag, n>>: <<"int", n>>, <<"none", 0>> (None), <<"exc", 0>> (an   *)
(* exception instance), <<"fail", f>> (a reference to Failure f),          *)
(* <<"def", d>> (a reference to Deferred d), <<"conn", c>> (a Connection), *)
(* <<"cons", k>> (a ProtocolConsumer), <<"list", cells>> and               *)
(* <<"dict", items>> (containers).  A handler is a pair <<kind, n>>        *)
(* standing for a Python callable.  Every method is an operator from heap  *)
(* to heap, so that one action is one whole call, however deep the         *)
(* callbacks it runs.                                                      *)
(***************************************************************************)
EXTENDS Integers, Sequences, FiniteSets, TLC

VARIABLES
    defs,    \* the Deferreds: called, running, paused, callback queue, result
    fails,   \* the Failures: fails[f] is the list Failure.traces, of exceptions
    errs,    \* the exception instances: their class and _failure_logged
    prod,    \* the Producer: _received, _max_connections, _timeout, the set
    conns,   \* the Connections, in the order new_connection made them
    cons,    \* the ProtocolConsumers, in the order they were constructed
    multi,   \* the MultiDeferreds, in the order they were constructed
    gens,    \* the DeferredGenerators, in the order they were constructed
    loop,    \* the event loop: the calls scheduled with call_soon_threadsafe
    now,     \* the event loop: the value of default_timer()
    ran,     \* history: ran[d] lists the handler invocations of Deferred d
    oplog,   \* history: the events of the last operation, in order
    last,    \* history: the last operation, its arguments and the error raised
    world    \* which Deferreds exist and which callables their callers use

vars ==
    <<defs, fails, errs, prod, conns, cons, multi, gens, loop, now, ran, oplog, last, world>>

\* Number of pairs a caller registers on the chain Deferred.
MaxReg == 3
\* Number of pairs a caller registers on each Deferred that waits on another.
MaxNestReg == 2
\* Number of Connections a Producer is asked for.
MaxConns == 2
\* Number of ProtocolConsumers constructed.
MaxConsumers == 2
\* Number of MultiDeferreds a caller constructs (the nested ones come on top).
MaxMulti == 1
\* Number of DeferredGenerators constructed.
MaxGens == 1
\* The last value of default_timer().
MaxTime == 2
\* Number of calls of consumers with data.
MaxFed == 3
\* Number of listeners bound to one event.
MaxListeners == 2
\* Number of exceptions fired as event data.
MaxRaised == 1
\* The default of the timeout of a DeferredGenerator, in seconds.
DefaultTimeout == 30

----------------------------------------------------------------------------
(* Values *)

None == <<"none", 0>>
\* The marker of an omitted argument.
NOTHING == <<"nothing", 0>>
\* The markers a generator yields.
NOT_DONE == <<"NOT_DONE", 0>>
CLEAR_ERRORS == <<"CLEAR_ERRORS", 0>>
\* The result slot of a Deferred that was not called (the attribute is absent).
NoResult == <<"unset", 0>>

is_failure(v) == v[1] = "fail"

is_async(v) == v[1] = "def"

pass_through == <<"pass", 0>>

\* Failure.append(trace) for an exception of class kind, just raised or just
\* made: one more record on Failure f, holding that exception instance.
Failure_append(h, f, kind) ==
    [h EXCEPT !.errs = Append(@, [kind |-> kind, logged |-> FALSE, emits |-> 0]),
              !.fails[f] = Append(@, Len(h.errs) + 1)]

\* Failure(err) for such an exception: a new Failure holding one record.
NewFailure(h, kind) ==
    [h |-> Failure_append([h EXCEPT !.fails = Append(@, <<>>)], Len(h.fails) + 1, kind),
     out |-> <<"fail", Len(h.fails) + 1>>]

\* The class of the exception instance <<"exc", n>>.
ExcClass(n) == IF n = 0 THEN "ValueError" ELSE "RuntimeError"

as_failure(h, v) ==
    IF v[1] = "exc" THEN NewFailure(h, ExcClass(v[2])) ELSE [h |-> h, out |-> v]

\* result_or_self without the test of the callback queue.
result_or_self_called(h, d) ==
    IF h.defs[d].called THEN h.defs[d].result ELSE <<"def", d>>

result_or_self(h, d) ==
    IF h.defs[d].called /\ h.defs[d].cbs = <<>>
    THEN h.defs[d].result
    ELSE <<"def", d>>

maybe_async(h, v) ==
    IF is_async(v) THEN [h |-> h, out |-> result_or_self(h, v[2])]
    ELSE as_failure(h, v)

----------------------------------------------------------------------------
(* Events of the operation log *)

NoFlags == <<FALSE, FALSE, 0, 0>>

Flags(h, d) ==
    <<h.defs[d].called, h.defs[d].running, h.defs[d].paused, Len(h.defs[d].cbs)>>

\* An event of Deferred d about its pair number n: fns are the callables it is
\* about, v the result of d at that point, o the value a handler returned, st
\* the flags of d.
Event(e, d, n, fns, v, o, st) ==
    [e |-> e, d |-> d, n |-> n, fns |-> fns, v |-> v, o |-> o, st |-> st]

Log(h, ev) == [h EXCEPT !.oplog = Append(@, ev)]

----------------------------------------------------------------------------
(* Deferred *)

\* nreg and v0 are history: the number of pairs registered so far, and the
\* value the Deferred was called back with (after as_failure).
NewDeferred ==
    [called |-> FALSE, running |-> FALSE, paused |-> 0, cbs |-> <<>>,
     result |-> NoResult, nreg |-> 0, v0 |-> NoResult]

\* The exception classes of the records of the value v, <<>> when v is no
\* Failure.
Traces(h, v) ==
    IF is_failure(v)
    THEN [i \in 1..Len(h.fails[v[2]]) |-> h.errs[h.fails[v[2]][i]].kind]
    ELSE <<>>

\* _add_exception that always starts a new Failure.
_add_exception_new(h, d, kind) ==
    LET f == NewFailure(h, kind)
    IN [f.h EXCEPT !.defs[d].result = f.out]

_add_exception(h, d, kind) ==
    IF ~is_failure(h.defs[d].result)
    THEN LET f == NewFailure(h, kind)
         IN [f.h EXCEPT !.defs[d].result = f.out]
    ELSE Failure_append(h, h.defs[d].result[2], kind)

_pause(h, d) == [h EXCEPT !.defs[d].paused = @ + 1]

\* deque.pop: the newest pair first.
pop(q) == [item |-> q[Len(q)], rest |-> SubSeq(q, 1, Len(q) - 1)]

\* deque.popleft
popleft(q) == [item |-> Head(q), rest |-> Tail(q)]

\* callbacks[is_failure(self.result)]
select(callbacks, result) == IF is_failure(result) THEN callbacks.eb ELSE callbacks.cb

RECURSIVE _run_callbacks(_, _)
RECURSIVE Drain(_, _)
RECURSIVE add_callback(_, _, _, _)
RECURSIVE _continue(_, _, _)
RECURSIVE CallHandler(_, _, _)
RECURSIVE _deferred_done(_, _, _, _)

\* The callable safe_callback returns, after callback(result): r is what the
\* callback did; its exception is logged and result returned.
Listened(r, cb, result) ==
    [h |-> Log(r.h, Event("listen", 0, 0, <<cb>>, result,
                          IF r.exc = "" THEN r.out ELSE <<"exc", 0>>, NoFlags)),
     out |-> result, exc |-> ""]

\* callback(self.result) for the callable fn: the heap after the call, the
\* value returned, and the exception raised ("" when none).
CallHandler(h, fn, arg) ==
    CASE fn[1] = "pass" -> [h |-> h, out |-> arg, exc |-> ""]
      [] fn[1] = "inc" ->
            IF arg[1] = "int" THEN [h |-> h, out |-> <<"int", arg[2] + 1>>, exc |-> ""]
            ELSE [h |-> h, out |-> None, exc |-> "TypeError"]
      [] fn[1] = "dbl" ->
            IF arg[1] = "int" THEN [h |-> h, out |-> <<"int", arg[2] * 2>>, exc |-> ""]
            ELSE [h |-> h, out |-> None, exc |-> "TypeError"]
      [] fn[1] = "k42" -> [h |-> h, out |-> <<"int", 42>>, exc |-> ""]
      [] fn[1] = "raise" -> [h |-> h, out |-> None, exc |-> "ValueError"]
      [] fn[1] = "ret" -> [h |-> h, out |-> <<"def", fn[2]>>, exc |-> ""]
      [] fn[1] = "addcb" ->
            [h |-> add_callback(h, fn[2], <<"dbl", 0>>, pass_through),
             out |-> arg, exc |-> ""]
      [] fn[1] = "cont" -> _continue(h, fn[2], arg)
      [] fn[1] = "safe" -> Listened(CallHandler(h, fn[2], arg), fn[2], arg)
      [] fn[1] = "_deferred_done" -> _deferred_done(h, fn[2][1], fn[2][2], arg)
      [] fn[1] = "_add_connection" ->
            [h |-> [h EXCEPT !.prod.conns = @ \cup {arg}], out |-> None, exc |-> ""]
      [] fn[1] = "_remove_connection" ->
            [h |-> [h EXCEPT !.prod.conns = @ \ {arg}], out |-> None, exc |-> ""]

\* _unpause without the decrement.
_unpause_keep(h, d) == _run_callbacks(h, d)

_unpause(h, d) == _run_callbacks([h EXCEPT !.defs[d].paused = @ - 1], d)

\* The end of _continue, return self.result: h is the heap after _unpause.
Continued(h, d) == [h |-> h, out |-> h.defs[d].result, exc |-> ""]

_continue(h, d, result) == Continued(_unpause([h EXCEPT !.defs[d].result = result], d), d)

\* The history entry of one handler invocation of Deferred d: the pair, the
\* callable invoked, its argument (with its records, for a Failure), the result
\* it left (with its records), whether that is a Deferred not yet called, and
\* the exception raised.
Ran(h, d, callbacks, fn, arg, tr0, exc) ==
    [n |-> callbacks.n, cb |-> callbacks.cb, eb |-> callbacks.eb, fn |-> fn,
     arg |-> arg, tr0 |-> tr0, ret |-> h.defs[d].result,
     tr |-> Traces(h, h.defs[d].result),
     pend |-> is_async(h.defs[d].result) /\ ~h.defs[h.defs[d].result[2]].called,
     exc |-> exc]

\* The else branch of the loop, and its next iteration: h has the result stored.
Resume(h, d) ==
    IF is_async(h.defs[d].result)
    THEN add_callback(_pause(h, d), h.defs[d].result[2], <<"cont", d>>, <<"cont", d>>)
    ELSE Drain(h, d)

\* self.result = maybe_async(...) and the finally clause: m.out is the value of
\* maybe_async, out what the handler returned, h0 the heap before the call.
Stored(m, out, h0, d, callbacks, arg) ==
    Resume([Log([m.h EXCEPT !.defs[d].result = m.out, !.defs[d].running = FALSE],
                Event("ret", d, callbacks.n, <<select(callbacks, arg)>>, m.out, out, NoFlags))
               EXCEPT !.ran[d] = Append(@,
                   Ran([m.h EXCEPT !.defs[d].result = m.out], d, callbacks,
                       select(callbacks, arg), arg, Traces(h0, arg), ""))],
           d)

\* The except branch of the loop, and its next iteration: h has the exception
\* added, h0 is the heap before the call.
Raised(h, exc, h0, d, callbacks, arg) ==
    Drain([Log(h, Event("raise", d, callbacks.n, <<select(callbacks, arg)>>,
                        h.defs[d].result, None, NoFlags))
              EXCEPT !.ran[d] = Append(@, Ran(h, d, callbacks, select(callbacks, arg),
                                              arg, Traces(h0, arg), exc))],
          d)

\* The try statement of the loop after the call: r is what the handler did.
AfterCall(r, h0, d, callbacks, arg) ==
    IF r.exc # ""
    THEN Raised(_add_exception([r.h EXCEPT !.defs[d].running = FALSE], d, r.exc),
                r.exc, h0, d, callbacks, arg)
    ELSE Stored(maybe_async(r.h, r.out), r.out, h0, d, callbacks, arg)

\* The history of a handler invocation: the flags of d when it begins.
Began(h, d, callbacks, arg) ==
    Log(h, Event("call", d, callbacks.n, <<select(callbacks, arg)>>, arg, None, Flags(h, d)))

\* One iteration of the loop: callbacks is the pair taken from the queue, arg
\* the result it is called with.
Invoke(h, d, callbacks, arg) ==
    AfterCall(CallHandler(Began([h EXCEPT !.defs[d].cbs = popleft(@).rest,
                                          !.defs[d].running = TRUE],
                                d, callbacks, arg),
                          select(callbacks, arg), arg),
              h, d, callbacks, arg)

\* The while loop of _run_callbacks.
Drain(h, d) ==
    IF h.defs[d].cbs = <<>> THEN h
    ELSE Invoke(h, d, popleft(h.defs[d].cbs).item, h.defs[d].result)

\* _run_callbacks without the test of _runningCallbacks.
_run_callbacks_reentrant(h, d) ==
    IF ~h.defs[d].called \/ h.defs[d].paused # 0 THEN h
    ELSE Drain(h, d)

\* _run_callbacks without the test of paused.
_run_callbacks_paused(h, d) ==
    IF ~h.defs[d].called \/ h.defs[d].running THEN h
    ELSE Drain(h, d)

_run_callbacks(h, d) ==
    IF ~h.defs[d].called \/ h.defs[d].running \/ h.defs[d].paused # 0 THEN h
    ELSE Drain(h, d)

\* The history of the return of add_callback.
LogReturn(h, d, n, callback, errback) ==
    Log(h, Event("addret", d, n, <<callback, errback>>, h.defs[d].result, None, Flags(h, d)))

\* self._callbacks.append((callback, errback)), n the number of the pair.
Register(h, d, n, callback, errback) ==
    [Log(h, Event("add", d, n, <<callback, errback>>, h.defs[d].result, None, Flags(h, d)))
        EXCEPT !.defs[d].cbs = Append(@, [cb |-> callback, eb |-> errback, n |-> n]),
               !.defs[d].nreg = n]

add_callback(h, d, callback, errback) ==
    LogReturn(_run_callbacks(Register(h, d, h.defs[d].nreg + 1, callback, errback), d),
              d, h.defs[d].nreg + 1, callback, errback)

add_errback(h, d, errback) == add_callback(h, d, pass_through, errback)

add_both(h, d, cb) == add_callback(h, d, cb, cb)

\* callback without the test of _called.
callback_again(h, d, result) ==
    IF is_async(result) THEN [h |-> h, err |-> "RuntimeError"]
    ELSE LET a == as_failure(h, result)
             h1 == [a.h EXCEPT !.defs[d].result = a.out, !.defs[d].called = TRUE,
                               !.defs[d].v0 = a.out]
         IN [h |-> _run_callbacks(h1, d), err |-> ""]

\* Deferred.callback: the heap after the call and the exception raised.
callback(h, d, result) ==
    IF is_async(result) THEN [h |-> h, err |-> "RuntimeError"]
    ELSE IF h.defs[d].called THEN [h |-> h, err |-> "AlreadyCalledError"]
    ELSE LET a == as_failure(h, result)
             h1 == [a.h EXCEPT !.defs[d].result = a.out, !.defs[d].called = TRUE,
                               !.defs[d].v0 = a.out]
         IN [h |-> _run_callbacks(h1, d), err |-> ""]

----------------------------------------------------------------------------
(* Failure.log, EventHandler *)

\* The loop of Failure.log, log.critical for every record of the Failure:
\* emits counts the times the record of an exception was emitted.
Emitted(errors, traces) ==
    [e \in 1..Len(errors) |->
        [errors[e] EXCEPT !.emits = @ + Cardinality({i \in 1..Len(traces) : traces[i] = e})]]

\* Failure.log: _failure_logged is kept on the exception of the last record.
Failure_log(h, f) ==
    IF h.fails[f] = <<>> \/ h.errs[h.fails[f][Len(h.fails[f])]].logged THEN h
    ELSE [h EXCEPT !.errs = Emitted([@ EXCEPT ![h.fails[f][Len(h.fails[f])]].logged = TRUE],
                                    h.fails[f])]

log_failure(h, failure) ==
    LET m == maybe_async(h, failure)
    IN IF is_failure(m.out) THEN Failure_log(m.h, m.out[2]) ELSE m.h

\* An EventHandler is a Connection <<"conn", c>> or a ProtocolConsumer
\* <<"cons", k>>: its ONE_TIME_EVENTS (name -> Deferred) and MANY_TIMES_EVENTS
\* (name -> list of callables).
ONE_TIME_EVENTS(h, obj) ==
    IF obj[1] = "conn" THEN h.conns[obj[2]].once ELSE h.cons[obj[2]].once

MANY_TIMES_EVENTS(h, obj) ==
    IF obj[1] = "conn" THEN h.conns[obj[2]].many ELSE h.cons[obj[2]].many

\* A new Deferred on the heap.
AllocDeferred(h) ==
    [h EXCEPT !.defs = Append(@, NewDeferred), !.ran = Append(@, <<>>)]

\* safe_callback that returns the callback as it is.
unsafe_callback(cb) == cb

safe_callback(cb) == <<"safe", cb>>

\* bind_event that binds to a one time event with add_callback.
bind_event_callback(h, obj, event, cb) ==
    IF event \in DOMAIN ONE_TIME_EVENTS(h, obj)
    THEN add_callback(h, ONE_TIME_EVENTS(h, obj)[event], safe_callback(cb), pass_through)
    ELSE h

bind_event(h, obj, event, cb) ==
    IF event \in DOMAIN ONE_TIME_EVENTS(h, obj)
    THEN add_both(h, ONE_TIME_EVENTS(h, obj)[event], safe_callback(cb))
    ELSE IF event \in DOMAIN MANY_TIMES_EVENTS(h, obj)
    THEN IF obj[1] = "conn"
         THEN [h EXCEPT !.conns[obj[2]].many[event] = Append(@, safe_callback(cb))]
         ELSE [h EXCEPT !.cons[obj[2]].many[event] = Append(@, safe_callback(cb))]
    ELSE h

\* for callback in self.MANY_TIMES_EVENTS[event]: callback(event_data)
RECURSIVE RunListeners(_, _, _)

\* The listeners after the first: r is what the first one did.
NextListener(r, listeners, event_data) ==
    IF r.exc # "" THEN [h |-> r.h, err |-> r.exc]
    ELSE RunListeners(r.h, listeners, event_data)

RunListeners(h, listeners, event_data) ==
    IF listeners = <<>> THEN [h |-> h, err |-> ""]
    ELSE NextListener(CallHandler(h, Head(listeners), event_data), Tail(listeners),
                      event_data)

\* The end of fire_event that drops the exception of the listeners.
LogEventData_quiet(r, event_data) == [h |-> log_failure(r.h, event_data), err |-> ""]

\* The end of fire_event, log_failure(event_data): r is what the listeners did.
LogEventData(r, event_data) ==
    IF r.err # "" THEN r ELSE [h |-> log_failure(r.h, event_data), err |-> ""]

\* The middle of fire_event: a.out is the event data, a.h the heap that has it.
Dispatch(a, obj, event) ==
    LogEventData(IF event \in DOMAIN ONE_TIME_EVENTS(a.h, obj)
                 THEN callback(a.h, ONE_TIME_EVENTS(a.h, obj)[event], a.out)
                 ELSE IF event \in DOMAIN MANY_TIMES_EVENTS(a.h, obj)
                 THEN RunListeners(a.h, MANY_TIMES_EVENTS(a.h, obj)[event], a.out)
                 ELSE [h |-> a.h, err |-> ""],
                 a.out)

\* What an EventHandler is linked to when it fires an event: for a Connection
\* its timer handle and its current consumer, for a ProtocolConsumer its
\* connection and whether that Connection has it as the current consumer.
Links(h, obj) ==
    IF obj[1] = "conn"
    THEN [timer |-> h.conns[obj[2]].idle_timeout,
          consumer |-> h.conns[obj[2]].current_consumer,
          connection |-> obj[2]]
    ELSE [timer |-> FALSE,
          consumer |-> IF h.cons[obj[2]].connection # 0
                          /\ h.conns[h.cons[obj[2]].connection].current_consumer = obj[2]
                       THEN obj[2] ELSE 0,
          connection |-> h.cons[obj[2]].connection]

\* The history of fire_event: a.out is the event data, a.h the heap that has it.
Fired(a, obj, event) ==
    [h |-> Log(a.h, Event("fire", 0, 0, <<event>>, a.out, obj, Links(a.h, obj))),
     out |-> a.out]

\* fire_event: the heap after it and the exception it raised.
fire_event(h, obj, event, event_data) ==
    Dispatch(Fired(IF event_data = NOTHING THEN [h |-> h, out |-> obj]
                   ELSE as_failure(h, event_data),
                   obj, event),
             obj, event)

----------------------------------------------------------------------------
(* ProtocolConsumer, Connection, Producer *)

\* TransportProxy.closed: the transport of the Connection was closed.
closed(h, c) == h.conns[c].closed

\* TransportProxy.close: the transport starts closing.
close(h, c) == [h EXCEPT !.conns[c].closed = TRUE]

\* idle_timeout is whether _idle_timeout holds a handle, armed whether the
\* event loop still has the call of that handle to make.
_add_idle_timeout(h, c) ==
    IF ~closed(h, c) /\ ~h.conns[c].idle_timeout /\ h.conns[c].timeout # 0
    THEN [h EXCEPT !.conns[c].idle_timeout = TRUE, !.conns[c].armed = TRUE]
    ELSE h

\* _cancel_timeout that leaves the handle.
_cancel_timeout_never(h, c) == h

_cancel_timeout(h, c) ==
    [h EXCEPT !.conns[c].idle_timeout = FALSE, !.conns[c].armed = FALSE]

\* _timed_out, which the event loop calls when the handle is due.
_timed_out(h, c) == [h |-> close([h EXCEPT !.conns[c].armed = FALSE], c), err |-> ""]

\* Connection.__init__ with the Deferreds of its two one time events.
Connection(h, session, timeout) ==
    LET h1 == AllocDeferred(AllocDeferred(h))
    IN [h1 EXCEPT !.conns = Append(@,
           [session |-> session, processed |-> 0, timeout |-> timeout,
            idle_timeout |-> FALSE, armed |-> FALSE, current_consumer |-> 0,
            transport |-> FALSE,
            closed |-> FALSE,
            once |-> [connection_made |-> Len(h.defs) + 1,
                      connection_lost |-> Len(h.defs) + 2],
            many |-> [data_received |-> <<>>, pre_request |-> <<>>,
                      post_request |-> <<>>]])]

\* set_consumer without the assertion.
set_consumer_over(h, c, k) ==
    fire_event([h EXCEPT !.conns[c].current_consumer = k,
                         !.cons[k].connection = c,
                         !.conns[c].processed = @ + 1],
               <<"conn", c>>, "pre_request", <<"cons", k>>)

set_consumer(h, c, k) ==
    IF h.conns[c].current_consumer # 0 THEN [h |-> h, err |-> "AssertionError"]
    ELSE fire_event([h EXCEPT !.conns[c].current_consumer = k,
                              !.cons[k].connection = c,
                              !.conns[c].processed = @ + 1],
                    <<"conn", c>>, "pre_request", <<"cons", k>>)

\* ProtocolConsumer.__init__(connection): the consumer exists even when
\* set_consumer raises.
ProtocolConsumer(h, c) ==
    LET h1 == AllocDeferred(h)
        k == Len(h.cons) + 1
        h2 == [h1 EXCEPT !.cons = Append(@,
                  [connection |-> 0, request_processed |-> 1,
                   data_received_count |-> 0, reconnect_retries |-> 0,
                   once |-> [finish |-> Len(h.defs) + 1],
                   many |-> [data_received |-> <<>>]])]
    IN set_consumer(h2, c, k)

\* Connection.finished(consumer, result)
\* r is what fire_event('post_request', consumer) did.
FireFinish(r, k, result) ==
    IF r.err # "" THEN r ELSE fire_event(r.h, <<"cons", k>>, "finish", result)

\* r is what consumer.fire_event('finish', result) did.
Detach(r, c, k) ==
    IF r.err # "" THEN r
    ELSE [h |-> [r.h EXCEPT !.conns[c].current_consumer = 0, !.cons[k].connection = 0],
          err |-> ""]

\* Connection.finished without the test of the current consumer.
Connection_finished_any(h, c, k, result) ==
    Detach(FireFinish(fire_event(h, <<"conn", c>>, "post_request", <<"cons", k>>),
                      k, result),
           c, k)

Connection_finished(h, c, k, result) ==
    IF h.conns[c].current_consumer # k THEN [h |-> h, err |-> "RuntimeError"]
    ELSE Detach(FireFinish(fire_event(h, <<"conn", c>>, "post_request", <<"cons", k>>),
                           k, result),
                c, k)

\* ProtocolConsumer.finished(result)
finished(h, k, result) ==
    IF h.cons[k].connection # 0
    THEN Connection_finished(h, h.cons[k].connection, k, result)
    ELSE [h |-> h, err |-> ""]

\* ProtocolConsumer.connection_lost(exc)
ProtocolConsumer_connection_lost(h, k, exc) == finished(h, k, exc)

\* r is what fire_event('connection_made') did.
AfterMade(r, c) ==
    IF r.err # "" THEN r ELSE [h |-> _add_idle_timeout(r.h, c), err |-> ""]

connection_made(h, c) ==
    AfterMade(fire_event([h EXCEPT !.conns[c].transport = TRUE],
                         <<"conn", c>>, "connection_made", NOTHING),
              c)

\* The end of connection_lost without the call of the consumer.
AfterLost_alone(r, c, exc) == r

\* r is what fire_event('connection_lost', exc) did.
AfterLost(r, c, exc) ==
    IF r.err # "" \/ r.h.conns[c].current_consumer = 0 THEN r
    ELSE ProtocolConsumer_connection_lost(r.h, r.h.conns[c].current_consumer, exc)

connection_lost(h, c, exc) ==
    AfterLost(fire_event(_cancel_timeout(h, c), <<"conn", c>>, "connection_lost", exc),
              c, exc)

\* ProtocolConsumer.data_received is the application's: a consumer told
\* "all" takes the data, "done" takes it and calls finished(), "keep" takes
\* the first byte and returns the rest, "finish" takes the first byte, calls
\* finished() and returns the rest.
Behaviours == {"all", "done", "keep", "finish"}

\* The leftover of data_received.
Leftover(data, b) == IF b \in {"all", "done"} THEN <<>> ELSE Tail(data)

\* ProtocolConsumer._data_received(data) of consumer k told b: the heap after
\* it, the leftover and the exception raised.
_data_received(h, k, data, b) ==
    IF b \in {"done", "finish"}
    THEN [h |-> finished([h EXCEPT !.cons[k].data_received_count = @ + 1,
                                   !.cons[k].reconnect_retries = 0],
                         k, NOTHING).h,
          out |-> Leftover(data, b),
          err |-> finished([h EXCEPT !.cons[k].data_received_count = @ + 1,
                                     !.cons[k].reconnect_retries = 0],
                           k, NOTHING).err]
    ELSE [h |-> [h EXCEPT !.cons[k].data_received_count = @ + 1,
                          !.cons[k].reconnect_retries = 0],
          out |-> Leftover(data, b), err |-> ""]

RECURSIVE Receive(_, _, _, _)

\* The test after consumer._data_received that never raises.
AfterFeed_lenient(r, c, k, data, bs) ==
    IF r.err # "" THEN [h |-> r.h, err |-> r.err]
    ELSE Receive(Log(r.h, Event("feed", k, 0, <<Head(bs)>>, data, r.out,
                                r.h.conns[c].current_consumer)),
                 c, r.out, Tail(bs))

\* The test after data = consumer._data_received(data): r is what the
\* consumer k did with data.
AfterFeed(r, c, k, data, bs) ==
    IF r.err # "" THEN [h |-> r.h, err |-> r.err]
    ELSE IF r.out # <<>> /\ r.h.conns[c].current_consumer # 0
    THEN [h |-> Log(r.h, Event("feed", k, 0, <<Head(bs)>>, data, r.out,
                               r.h.conns[c].current_consumer)),
          err |-> "ProtocolError"]
    ELSE Receive(Log(r.h, Event("feed", k, 0, <<Head(bs)>>, data, r.out,
                                r.h.conns[c].current_consumer)),
                 c, r.out, Tail(bs))

\* consumer = self._consumer_factory(self): r is what the constructor did,
\* the new consumer is the last of cons.
Fresh(r, c, data, bs) ==
    IF r.err # "" THEN r
    ELSE AfterFeed(_data_received(r.h, Len(r.h.cons), data, Head(bs)),
                   c, Len(r.h.cons), data, bs)

\* while data: ... and the _add_idle_timeout after it; bs tells the consumers
\* of the iterations what to do.
Receive(h, c, data, bs) ==
    IF data = <<>> THEN [h |-> _add_idle_timeout(h, c), err |-> ""]
    ELSE IF h.conns[c].current_consumer = 0
    THEN Fresh(ProtocolConsumer(h, c), c, data, bs)
    ELSE AfterFeed(_data_received(h, h.conns[c].current_consumer, data, Head(bs)),
                   c, h.conns[c].current_consumer, data, bs)

\* Connection.data_received(data)
data_received(h, c, data, bs) == Receive(_cancel_timeout(h, c), c, data, bs)

\* new_connection with the cap on the concurrent connections.
new_connection_concurrent(h) ==
    IF h.prod.max_connections # 0 /\ Cardinality(h.prod.conns) >= h.prod.max_connections
    THEN [h |-> h, err |-> "RuntimeError"]
    ELSE LET session == h.prod.received + 1
             h1 == Connection([h EXCEPT !.prod.received = session], session,
                              h.prod.timeout)
             c == Len(h.conns) + 1
             h2 == bind_event(h1, <<"conn", c>>, "connection_made",
                              <<"_add_connection", 0>>)
             h3 == bind_event(h2, <<"conn", c>>, "connection_lost",
                              <<"_remove_connection", 0>>)
         IN [h |-> h3, err |-> ""]

\* Producer.new_connection: the Producer declares no many times events, so
\* copy_many_times_events(producer) copies nothing.
new_connection(h) ==
    IF h.prod.max_connections # 0 /\ h.prod.received >= h.prod.max_connections
    THEN [h |-> h, err |-> "RuntimeError"]
    ELSE LET session == h.prod.received + 1
             h1 == Connection([h EXCEPT !.prod.received = session], session,
                              h.prod.timeout)
             c == Len(h.conns) + 1
             h2 == bind_event(h1, <<"conn", c>>, "connection_made",
                              <<"_add_connection", 0>>)
             h3 == bind_event(h2, <<"conn", c>>, "connection_lost",
                              <<"_remove_connection", 0>>)
         IN [h |-> h3, err |-> ""]

\* Producer.concurrent_connections
concurrent_connections == Cardinality(prod.conns)

----------------------------------------------------------------------------
(* MultiDeferred *)

\* A list is <<"list", cells>> and a dict <<"dict", items>>, its items the
\* pairs <<key, cell>> in the order the dict iterates.  A MultiDeferred m has
\* its Deferred multi[m].self, its _stream (cells or items), _deferred (the
\* pairs <<key, Deferred>> awaited), _failures (a Failure), _locked and
\* fireOnOneErrback; data and top are history, the argument of the constructor
\* and whether a caller (and not _make) constructed it.

is_container(v) == v[1] \in {"list", "dict"}

\* iterdata(stream, start): the pairs <<key, value>> of a list or a dict.
iterdata(stream, start) ==
    IF stream[1] = "dict" THEN stream[2]
    ELSE [i \in 1..Len(stream[2]) |-> <<start + i - 1, stream[2][i]>>]

\* Failure(): a new Failure holding no record.
Failure(h) ==
    [h |-> [h EXCEPT !.fails = Append(@, <<>>)], out |-> <<"fail", Len(h.fails) + 1>>]

\* Failure.append(trace) for a Failure trace: nothing when it has no record.
Failure_extend(h, f, trace) == [h EXCEPT !.fails[f] = @ \o h.fails[trace]]

\* The assignment of _setitem that appends in place of the cell of key.
store_append(type, stream, key, value) ==
    IF type = "list" THEN Append(stream, value) ELSE Append(stream, <<key, value>>)

\* The assignment of _setitem: stream.append(value) or stream[key] = value.
store(type, stream, key, value) ==
    IF type = "list"
    THEN IF key = Len(stream) THEN Append(stream, value)
         ELSE [stream EXCEPT ![key + 1] = value]
    ELSE IF \E i \in 1..Len(stream) : stream[i][1] = key
         THEN [i \in 1..Len(stream) |->
                  IF stream[i][1] = key THEN <<key, value>> ELSE stream[i]]
         ELSE Append(stream, <<key, value>>)

\* log_failure is left at its default, False.
_setitem(h, m, key, value) ==
    IF is_failure(value)
    THEN Failure_extend([h EXCEPT !.multi[m].stream =
                                      store(h.multi[m].type, @, key, value)],
                        h.multi[m].failures, value[2])
    ELSE [h EXCEPT !.multi[m].stream = store(h.multi[m].type, @, key, value)]

\* _finish that never settles with the Failures.
_finish_stream(h, m) ==
    IF ~h.multi[m].locked \/ h.multi[m].deferred # {}
    THEN [h |-> h, err |-> "RuntimeError"]
    ELSE callback(h, h.multi[m].self, <<h.multi[m].type, h.multi[m].stream>>)

\* bool(self._failures) is len(self._failures) > 0.
_finish(h, m) ==
    IF ~h.multi[m].locked \/ h.multi[m].deferred # {}
    THEN [h |-> h, err |-> "RuntimeError"]
    ELSE IF h.multi[m].fireOnOneErrback /\ Len(h.fails[h.multi[m].failures]) > 0
    THEN callback(h, h.multi[m].self, <<"fail", h.multi[m].failures>>)
    ELSE callback(h, h.multi[m].self, <<h.multi[m].type, h.multi[m].stream>>)

\* The end of _deferred_done: r is what _finish did.
Returned(r, result) == [h |-> r.h, out |-> result, exc |-> r.err]

\* The test of _deferred_done after _setitem.
FinishIfDone(h, m, result) ==
    IF h.multi[m].locked /\ h.multi[m].deferred = {} /\ ~h.defs[h.multi[m].self].called
    THEN Returned(_finish(h, m), result)
    ELSE [h |-> h, out |-> result, exc |-> ""]

\* _deferred_done that settles on the first Failure of a child.
_deferred_done_first(h, m, key, result) ==
    IF is_failure(result) /\ h.multi[m].fireOnOneErrback /\ h.multi[m].locked
          /\ ~h.defs[h.multi[m].self].called
    THEN Returned(callback(_setitem(h, m, key, result), h.multi[m].self, result), result)
    ELSE FinishIfDone(_setitem([h EXCEPT !.multi[m].deferred =
                                            {p \in @ : p[1] # key}],
                               m, key, result),
                      m, result)

\* lambda result: self._deferred_done(key, result), as CallHandler calls it.
_deferred_done(h, m, key, result) ==
    FinishIfDone(_setitem([h EXCEPT !.multi[m].deferred = {p \in @ : p[1] # key}],
                          m, key, result),
                 m, result)

_add_deferred(h, m, key, value) ==
    add_both([h EXCEPT !.multi[m].deferred = {p \in @ : p[1] # key} \cup {<<key, value>>}],
             value, <<"_deferred_done", <<m, key>>>>)

\* The end of lock without the call of _finish.
FinishIfNone_never(h, m) == [h |-> h, err |-> ""]

\* The end of lock: h has _locked set.
FinishIfNone(h, m) ==
    IF h.multi[m].deferred = {} THEN _finish(h, m) ELSE [h |-> h, err |-> ""]

lock(h, m) ==
    IF h.multi[m].locked THEN [h |-> h, err |-> "RuntimeError"]
    ELSE FinishIfNone([h EXCEPT !.multi[m].locked = TRUE], m)

RECURSIVE MultiDeferred(_, _, _)
RECURSIVE update(_, _, _)

\* The end of _make, maybe_async(md.lock()): h has the new MultiDeferred n.
Locked(h, n) == maybe_async(lock(h, n).h, <<"def", h.multi[n].self>>)

_make(h, m, value) ==
    Locked(MultiDeferred(h, value, h.multi[m].fireOnOneErrback), Len(h.multi) + 1)

\* The end of _add: a.out is the value to store, a.h the heap that has it.
SetAndAwait(a, m, key) ==
    IF is_async(a.out)
    THEN _add_deferred(_setitem(a.h, m, key, a.out), m, key, a.out[2])
    ELSE _setitem(a.h, m, key, a.out)

\* The middle of _add: a.out is maybe_async(value).  No handle_value is given.
MakeNested(a, m) == IF is_container(a.out) THEN _make(a.h, m, a.out) ELSE a

\* _add: the heap after it and the exception it raised.
_add(h, m, key, value) ==
    IF h.multi[m].locked THEN [h |-> h, err |-> "RuntimeError"]
    ELSE [h |-> SetAndAwait(MakeNested(maybe_async(h, value), m), m, key), err |-> ""]

\* The rest of the loop of update: r is what _add did.
NextItem(r, m, items) == IF r.err # "" THEN r ELSE update(r.h, m, items)

\* The loop of update over the pairs of iterdata.
update(h, m, items) ==
    IF items = <<>> THEN [h |-> h, err |-> ""]
    ELSE NextItem(_add(h, m, Head(items)[1], Head(items)[2]), m, Tail(items))

\* MultiDeferred.append: the heap after it and the exception it raised.
append(h, m, value) ==
    IF h.multi[m].type = "list" THEN _add(h, m, Len(h.multi[m].stream), value)
    ELSE [h |-> h, err |-> "RuntimeError"]

\* MultiDeferred.__init__(data, fireOnOneErrback): the heap that has the new
\* MultiDeferred, which is the last of multi.
MultiDeferred(h, data, fireOnOneErrback) ==
    update([AllocDeferred(Failure(h).h) EXCEPT !.multi = Append(@,
               [self |-> Len(h.defs) + 1, type |-> data[1], stream |-> <<>>,
                deferred |-> {}, failures |-> Len(h.fails) + 1, locked |-> FALSE,
                fireOnOneErrback |-> fireOnOneErrback, data |-> data,
                top |-> FALSE])],
           Len(h.multi) + 1, iterdata(data, 0)).h

----------------------------------------------------------------------------
(* DeferredGenerator *)

\* A generator is its body gen, a sequence of steps <<"yield", value>> or
\* <<"raise", n>>, the number pc of steps taken, and exhausted: it raised, or
\* it raised StopIteration.  A DeferredGenerator g has its Deferred
\* gens[g].self, max_errors, timeout, errors (a Failure, 0 for None) and
\* _start.  seen, stopped, timedout and resumed are history: the values
\* _check_async handed on and <<"raised", n>> for each exception of next,
\* whether next raised StopIteration, whether the Timeout! branch was taken,
\* and the number of _consume calls the event loop ran.

\* Failure.clear that leaves the records.
Failure_keep(h, f) == h

\* Failure.clear
Failure_clear(h, f) == [h EXCEPT !.fails[f] = <<>>]

\* call_soon_threadsafe that drops the call.
call_soon_never(h, call) == h

\* call_soon_threadsafe that schedules the call twice.
call_soon_twice(h, call) == [h EXCEPT !.loop = Append(Append(@, call), call)]

\* loop.call_soon_threadsafe(call)
call_soon_threadsafe(h, call) == [h EXCEPT !.loop = Append(@, call)]

\* should_stop with > in place of >=.
should_stop_after(h, g) ==
    h.gens[g].max_errors # 0 /\ Len(h.fails[h.gens[g].errors]) > h.gens[g].max_errors

\* The value of should_stop: h is the heap after self.errors.append(failure).
should_stop(h, g) ==
    h.gens[g].max_errors # 0 /\ Len(h.fails[h.gens[g].errors]) >= h.gens[g].max_errors

\* conclude that keeps the last result.
conclude_last(h, g, last_result) ==
    callback([h EXCEPT !.gens[g].errors = 0], h.gens[g].self, last_result)

conclude(h, g, last_result) ==
    callback([h EXCEPT !.gens[g].errors = 0], h.gens[g].self,
             IF Len(h.fails[h.gens[g].errors]) > 0 THEN <<"fail", h.gens[g].errors>>
             ELSE last_result)

RECURSIVE _consume(_, _, _)
RECURSIVE _check_async(_, _, _)

\* The except Exception branch of _consume: h has the exception appended.
AfterRaise(h, g) ==
    IF should_stop(h, g) THEN conclude(h, g, None) ELSE _consume(h, g, None)

\* The try statement of _consume, result = next(self.gen).
Advance(h, g, last_result) ==
    IF h.gens[g].exhausted \/ h.gens[g].pc = Len(h.gens[g].gen)
    THEN conclude([h EXCEPT !.gens[g].exhausted = TRUE, !.gens[g].stopped = TRUE],
                  g, last_result)
    ELSE IF h.gens[g].gen[h.gens[g].pc + 1][1] = "raise"
    THEN AfterRaise(Failure_append(
                        [h EXCEPT !.gens[g].pc = @ + 1, !.gens[g].exhausted = TRUE,
                                  !.gens[g].seen = Append(@, <<"raised", 0>>)],
                        h.gens[g].errors,
                        ExcClass(h.gens[g].gen[h.gens[g].pc + 1][2])),
                    g)
    ELSE _check_async([h EXCEPT !.gens[g].pc = @ + 1], g,
                      h.gens[g].gen[h.gens[g].pc + 1][2])

\* The first test of _consume: h has last_result, a Failure, appended.
AfterFailure(h, g, last_result) ==
    IF should_stop(h, g) THEN conclude(h, g, None) ELSE Advance(h, g, last_result)

\* _consume: the heap after it and the exception it raised.
_consume(h, g, last_result) ==
    IF is_failure(last_result)
    THEN AfterFailure(Failure_extend([h EXCEPT !.gens[g].start = h.now],
                                     h.gens[g].errors, last_result[2]),
                      g, last_result)
    ELSE Advance([h EXCEPT !.gens[g].start = h.now], g, last_result)

\* The test of the timeout with >= in place of >.
Expired_at(h, g) == h.now - h.gens[g].start >= h.gens[g].timeout

\* default_timer() - self._start > self.timeout
Expired(h, g) == h.now - h.gens[g].start > h.gens[g].timeout

\* _check_async after maybe_async: a.out is its value, a.h the heap that has it.
Checked(a, g) ==
    IF is_async(a.out)
    THEN IF Expired(a.h, g)
         THEN callback([a.h EXCEPT !.gens[g].timedout = TRUE], a.h.gens[g].self,
                       <<"exc", 1>>)
         ELSE [h |-> call_soon_threadsafe(a.h, <<"_check_async", <<g, a.out[2]>>>>),
               err |-> ""]
    ELSE IF a.out = NOT_DONE
    THEN [h |-> call_soon_threadsafe([a.h EXCEPT !.gens[g].seen = Append(@, a.out)],
                                     <<"_consume", g>>),
          err |-> ""]
    ELSE IF a.out = CLEAR_ERRORS
    THEN _consume(Failure_clear([a.h EXCEPT !.gens[g].seen = Append(@, a.out)],
                                a.h.gens[g].errors),
                  g, None)
    ELSE _consume([a.h EXCEPT !.gens[g].seen = Append(@, a.out)], g, a.out)

_check_async(h, g, result) == Checked(maybe_async(h, result), g)

\* DeferredGenerator.__init__(gen, max_errors, timeout=timeout): the heap that
\* has the new DeferredGenerator, which is the last of gens.
DeferredGenerator(h, gen, max_errors, timeout) ==
    _consume([AllocDeferred(Failure(h).h) EXCEPT !.gens = Append(@,
                 [self |-> Len(h.defs) + 1, gen |-> gen, pc |-> 0, exhausted |-> FALSE,
                  max_errors |-> IF max_errors # 0
                                 THEN (IF max_errors > 1 THEN max_errors ELSE 1)
                                 ELSE 0,
                  timeout |-> timeout, errors |-> Len(h.fails) + 1, start |-> 0,
                  seen |-> <<>>, stopped |-> FALSE, timedout |-> FALSE, resumed |-> 0])],
             Len(h.gens) + 1, None).h

\* The event loop runs the call.
Run(h, call) ==
    IF call[1] = "_consume"
    THEN _consume([h EXCEPT !.gens[call[2]].resumed = @ + 1], call[2], None)
    ELSE _check_async(h, call[2][1], <<"def", call[2][2]>>)

----------------------------------------------------------------------------
(* The callers of the Deferred API.  In the world "chain" Deferred 1 is a   *)
(* chain of handlers that may return the Deferred 2; in the world "nest"    *)
(* the Deferreds 1 and 2 both wait on the Deferred 3.                       *)

\* No Producer was made.
NoProducer == [received |-> 0, max_connections |-> 0, timeout |-> 0, conns |-> {}]

Defs == IF world = "chain" THEN {1, 2} ELSE {1, 2, 3}

\* The Deferred that the handlers of the others return.
Inner == IF world = "chain" THEN 2 ELSE 3

\* The callables handed to add_callback(cb) on Deferred d: lambda x: x*2, one
\* that returns the inner Deferred, one that calls d.add_callback while it runs.
Callbacks(d) ==
    IF d = Inner THEN {}
    ELSE IF world = "chain" THEN {<<"dbl", 0>>, <<"ret", Inner>>, <<"addcb", d>>}
    ELSE {<<"ret", Inner>>}

\* The values handed to Deferred.callback.
CallbackArgs == {<<"int", 1>>, <<"exc", 0>>, <<"def", Inner>>}

Heap ==
    [defs |-> defs, fails |-> fails, errs |-> errs, prod |-> prod, conns |-> conns,
     cons |-> cons, multi |-> multi, gens |-> gens, loop |-> loop, now |-> now,
     ran |-> ran, oplog |-> <<>>]

Commit(h) ==
    /\ defs' = h.defs
    /\ fails' = h.fails
    /\ errs' = h.errs
    /\ prod' = h.prod
    /\ conns' = h.conns
    /\ cons' = h.cons
    /\ multi' = h.multi
    /\ gens' = h.gens
    /\ loop' = h.loop
    /\ now' = h.now
    /\ ran' = h.ran
    /\ oplog' = h.oplog

InitWorld(w) ==
    /\ world = w
    /\ defs = [d \in (IF w = "chain" THEN {1, 2} ELSE {1, 2, 3}) |-> NewDeferred]
    /\ fails = <<>>
    /\ errs = <<>>
    /\ prod = NoProducer
    /\ conns = <<>>
    /\ cons = <<>>
    /\ multi = <<>>
    /\ gens = <<>>
    /\ loop = <<>>
    /\ now = 0
    /\ ran = [d \in DOMAIN defs |-> <<>>]
    /\ oplog = <<>>
    /\ last = [op |-> "init", d |-> 0, arg |-> <<>>, err |-> ""]

Init == InitWorld("chain")

\* The caller may register one more pair on d.
MayAdd(d) ==
    defs[d].nreg < (IF d = Inner THEN 1 ELSE IF world = "chain" THEN MaxReg ELSE MaxNestReg)

AddCallback ==
    \E d \in Defs : \E cb \in Callbacks(d) :
        /\ MayAdd(d)
        /\ Commit(add_callback(Heap, d, cb, pass_through))
        /\ last' = [op |-> "add_callback", d |-> d, arg |-> <<cb, pass_through>>, err |-> ""]
        /\ UNCHANGED world

AddCallbackErrback ==
    \E d \in Defs \ {Inner} :
        /\ world = "chain"
        /\ MayAdd(d)
        /\ Commit(add_callback(Heap, d, <<"raise", 0>>, <<"k42", 0>>))
        /\ last' = [op |-> "add_callback", d |-> d,
                    arg |-> <<<<"raise", 0>>, <<"k42", 0>>>>, err |-> ""]
        /\ UNCHANGED world

AddErrback ==
    \E d \in Defs \ {Inner} :
        /\ world = "chain"
        /\ MayAdd(d)
        /\ Commit(add_errback(Heap, d, <<"k42", 0>>))
        /\ last' = [op |-> "add_errback", d |-> d,
                    arg |-> <<pass_through, <<"k42", 0>>>>, err |-> ""]
        /\ UNCHANGED world

AddBoth ==
    \E d \in Defs :
        /\ MayAdd(d)
        /\ Commit(add_both(Heap, d, <<"inc", 0>>))
        /\ last' = [op |-> "add_both", d |-> d,
                    arg |-> <<<<"inc", 0>>, <<"inc", 0>>>>, err |-> ""]
        /\ UNCHANGED world

Callback ==
    \E d \in Defs, v \in CallbackArgs :
        LET r == callback(Heap, d, v)
        IN /\ Commit(r.h)
           /\ last' = [op |-> "callback", d |-> d, arg |-> <<v>>, err |-> r.err]
           /\ UNCHANGED world

\* A caller reads d.result_or_self().
ResultOrSelf ==
    \E d \in Defs :
        /\ last' = [op |-> "result_or_self", d |-> d,
                    arg |-> <<result_or_self(Heap, d)>>, err |-> ""]
        /\ oplog' = <<>>
        /\ UNCHANGED <<defs, fails, errs, prod, conns, cons, multi, gens, loop, now, ran, world>>

Next ==
    \/ AddCallback
    \/ AddCallbackErrback
    \/ AddErrback
    \/ AddBoth
    \/ Callback
    \/ ResultOrSelf

Spec == Init /\ [][Next]_vars

InitNest == InitWorld("nest")

\* The callers of the nest world register lambda _: inner and lambda x: x+1.
NextNest ==
    \/ AddCallback
    \/ AddBoth
    \/ Callback
    \/ ResultOrSelf

SpecNest == InitNest /\ [][NextNest]_vars

----------------------------------------------------------------------------
(* The Producer specification: a Producer hands out Connections, the        *)
(* transport of each calls connection_made once and then connection_lost    *)
(* once, and the application constructs consumers and finishes them.        *)

InitProducer ==
    /\ world = "producer"
    /\ defs = <<>>
    /\ fails = <<>>
    /\ errs = <<>>
    /\ \E m \in {0, 1, 2}, t \in {0, 30} :
          prod = [received |-> 0, max_connections |-> m, timeout |-> t, conns |-> {}]
    /\ conns = <<>>
    /\ cons = <<>>
    /\ multi = <<>>
    /\ gens = <<>>
    /\ loop = <<>>
    /\ now = 0
    /\ ran = <<>>
    /\ oplog = <<>>
    /\ last = [op |-> "init", d |-> 0, arg |-> <<>>, err |-> ""]

Done(r, op, c, arg) ==
    /\ Commit(r.h)
    /\ last' = [op |-> op, d |-> c, arg |-> arg, err |-> r.err]
    /\ UNCHANGED world

\* new_connection, any number of times once the Producer refuses.
NewConnection ==
    /\ \/ prod.received < MaxConns
       \/ prod.max_connections # 0 /\ prod.received >= prod.max_connections
    /\ Done(new_connection(Heap), "new_connection", 0, <<>>)

\* The transport of Connection c connects.
ConnectionMade ==
    \E c \in 1..Len(conns) :
        /\ ~conns[c].transport
        /\ Done(connection_made(Heap, c), "connection_made", c, <<>>)

\* The transport of Connection c is closed, cleanly or on an error.
ConnectionLost ==
    \E c \in 1..Len(conns), exc \in {None, <<"exc", 0>>} :
        /\ conns[c].transport
        /\ ~defs[conns[c].once.connection_lost].called
        /\ Done(connection_lost(Heap, c, exc), "connection_lost", c, <<exc>>)

\* The application constructs a consumer on Connection c.
NewConsumer ==
    \E c \in 1..Len(conns) :
        /\ Len(cons) < MaxConsumers
        /\ Done(ProtocolConsumer(Heap, c), "ProtocolConsumer", c, <<>>)

\* The application is done with consumer k.
Finished ==
    \E k \in 1..Len(cons), result \in {NOTHING, <<"int", 1>>} :
        Done(finished(Heap, k, result), "finished", k, <<result>>)

\* Connection c is told that consumer k is done, whether or not k is its
\* current consumer.
ConnectionFinished ==
    \E c \in 1..Len(conns), k \in 1..Len(cons), result \in {NOTHING, <<"int", 1>>} :
        /\ Commit(Connection_finished(Heap, c, k, result).h)
        /\ last' = [op |-> "Connection.finished", d |-> c, arg |-> <<k, result>>,
                    err |-> Connection_finished(Heap, c, k, result).err]
        /\ UNCHANGED world

\* The Producer and the transports alone.
NextConnections ==
    \/ NewConnection
    \/ ConnectionMade
    \/ ConnectionLost

SpecConnections == InitProducer /\ [][NextConnections]_vars

NextProducer ==
    \/ NewConnection
    \/ ConnectionMade
    \/ ConnectionLost
    \/ NewConsumer
    \/ Finished

SpecProducer == InitProducer /\ [][NextProducer]_vars

----------------------------------------------------------------------------
(* The MultiDeferred specification: a caller has two Deferreds, a Failure   *)
(* holding an error and a Failure holding none, constructs MultiDeferreds   *)
(* over collections of them, locks them and calls the Deferreds back.       *)

DefA == <<"def", 1>>
DefB == <<"def", 2>>
AFailure == <<"fail", 1>>
EmptyFailure == <<"fail", 2>>
IntCell(n) == <<"int", n>>
List(cells) == <<"list", cells>>
Dict(items) == <<"dict", items>>

\* The collections a MultiDeferred is constructed over.
Collections ==
    << List(<<>>),
       List(<<IntCell(1), DefA>>),
       List(<<DefA, DefB>>),
       List(<<DefA, DefA>>),
       List(<<DefA, List(<<DefB, IntCell(20)>>)>>),
       List(<<List(<<List(<<DefA>>)>>), DefB>>),
       List(<<AFailure, DefA>>),
       List(<<DefA, List(<<AFailure>>)>>),
       List(<<EmptyFailure, DefB>>),
       Dict(<< <<"x", IntCell(1)>>, <<"y", DefA>>, <<"z", List(<<IntCell(10), IntCell(20)>>)>> >>),
       Dict(<< <<"x", DefA>>, <<"y", Dict(<< <<"z", DefB>> >>)>> >>) >>

InitMulti ==
    /\ world = "multi"
    /\ defs = <<NewDeferred, NewDeferred>>
    /\ errs = <<[kind |-> "ValueError", logged |-> FALSE, emits |-> 0]>>
    /\ fails = << <<1>>, <<>> >>
    /\ prod = NoProducer
    /\ conns = <<>>
    /\ cons = <<>>
    /\ multi = <<>>
    /\ gens = <<>>
    /\ loop = <<>>
    /\ now = 0
    /\ ran = << <<>>, <<>> >>
    /\ oplog = <<>>
    /\ last = [op |-> "init", d |-> 0, arg |-> <<>>, err |-> ""]

\* The MultiDeferreds the caller constructed (the others are nested ones).
Constructed == {m \in 1..Len(multi) : multi[m].top}

\* MultiDeferred(data, fireOnOneErrback=f)
NewMulti ==
    \E i \in 1..Len(Collections), f \in BOOLEAN :
        /\ Cardinality(Constructed) < MaxMulti
        /\ Commit([MultiDeferred(Heap, Collections[i], f)
                      EXCEPT !.multi[Len(multi) + 1].top = TRUE])
        /\ last' = [op |-> "MultiDeferred", d |-> Len(multi) + 1,
                    arg |-> <<Collections[i]>>, err |-> ""]
        /\ UNCHANGED world

\* m.lock()
Lock ==
    \E m \in Constructed :
        /\ Commit(lock(Heap, m).h)
        /\ last' = [op |-> "lock", d |-> m, arg |-> <<>>, err |-> lock(Heap, m).err]
        /\ UNCHANGED world

\* The caller calls one of its two Deferreds back.
ChildCallback ==
    \E d \in {1, 2}, v \in {IntCell(9), <<"exc", 0>>} :
        /\ Commit(callback(Heap, d, v).h)
        /\ last' = [op |-> "callback", d |-> d, arg |-> <<v>>,
                    err |-> callback(Heap, d, v).err]
        /\ UNCHANGED world

NextMulti ==
    \/ NewMulti
    \/ Lock
    \/ ChildCallback

SpecMulti == InitMulti /\ [][NextMulti]_vars

----------------------------------------------------------------------------
(* The DeferredGenerator specification: a caller has one Deferred, drives   *)
(* generators that yield it, values, errors and markers, and calls the      *)
(* Deferred back, while the event loop runs the scheduled calls and its     *)
(* clock advances.                                                          *)

Yield(v) == <<"yield", v>>
Raise == <<"raise", 0>>

\* The bodies of the generators.
Generators ==
    << <<>>,
       <<Yield(NOT_DONE), Yield(IntCell(7))>>,
       <<Yield(<<"exc", 0>>), Yield(DefA), Yield(IntCell(3))>>,
       <<Yield(DefA), Yield(CLEAR_ERRORS), Yield(IntCell(4)), Yield(NOT_DONE)>>,
       <<Yield(<<"exc", 0>>), Yield(AFailure), Yield(IntCell(3))>>,
       <<Yield(IntCell(6)), Yield(<<"exc", 0>>), Yield(CLEAR_ERRORS)>>,
       <<Yield(<<"exc", 0>>), Yield(CLEAR_ERRORS), Yield(IntCell(4))>>,
       <<Yield(<<"exc", 0>>), Raise, Yield(IntCell(8))>> >>

InitGen ==
    /\ world = "gen"
    /\ defs = <<NewDeferred>>
    /\ errs = <<[kind |-> "ValueError", logged |-> FALSE, emits |-> 0]>>
    /\ fails = << <<1>> >>
    /\ prod = NoProducer
    /\ conns = <<>>
    /\ cons = <<>>
    /\ multi = <<>>
    /\ gens = <<>>
    /\ loop = <<>>
    /\ now = 0
    /\ ran = << <<>> >>
    /\ oplog = <<>>
    /\ last = [op |-> "init", d |-> 0, arg |-> <<>>, err |-> ""]

\* DeferredGenerator(gen, max_errors=k, timeout=t); k = 0 is max_errors unset
\* and DefaultTimeout is timeout unset.
NewGenerator ==
    \E i \in 1..Len(Generators), k \in 0..2, t \in {1, DefaultTimeout} :
        /\ Len(gens) < MaxGens
        /\ Commit(DeferredGenerator(Heap, Generators[i], k, t))
        /\ last' = [op |-> "DeferredGenerator", d |-> Len(gens) + 1,
                    arg |-> <<i, k, t>>, err |-> ""]
        /\ UNCHANGED world

\* The event loop runs the first of its scheduled calls.
LoopTurn ==
    /\ loop # <<>>
    /\ Commit(Run([Heap EXCEPT !.loop = Tail(@)], Head(loop)).h)
    /\ last' = [op |-> "loop", d |-> 0, arg |-> <<Head(loop)>>,
                err |-> Run([Heap EXCEPT !.loop = Tail(@)], Head(loop)).err]
    /\ UNCHANGED world

\* A second passes.
Tick ==
    /\ now < MaxTime
    /\ now' = now + 1
    /\ oplog' = <<>>
    /\ last' = [op |-> "tick", d |-> 0, arg |-> <<>>, err |-> ""]
    /\ UNCHANGED <<defs, fails, errs, prod, conns, cons, multi, gens, loop, ran, world>>

\* The caller calls its Deferred back, once.
AwaitedCallback ==
    \E v \in {IntCell(9), <<"exc", 0>>} :
        /\ ~defs[1].called
        /\ Commit(callback(Heap, 1, v).h)
        /\ last' = [op |-> "callback", d |-> 1, arg |-> <<v>>,
                    err |-> callback(Heap, 1, v).err]
        /\ UNCHANGED world

NextGen ==
    \/ NewGenerator
    \/ LoopTurn
    \/ Tick
    \/ AwaitedCallback

SpecGen == InitGen /\ [][NextGen]_vars

\* A step of LoopTurn, told by what it leaves in last.
LoopRuns == loop # <<>> /\ last'.op = "loop"

\* The event loop runs the calls it was handed: weak fairness of LoopTurn,
\* WF_vars(LoopTurn), written with loop # <<>> for ENABLED LoopTurn.
SpecGenLoop == SpecGen /\ ([]<>(loop = <<>>) \/ []<><<LoopRuns>>_vars)

\* No scheduled check waits for a Deferred that is unsettled with the timeout
\* of its DeferredGenerator not yet passed.
Awaited ==
    \A i \in 1..Len(loop) :
        loop[i][1] = "_check_async" =>
            \/ defs[loop[i][2][2]].called
            \/ now - gens[loop[i][2][1]].start > gens[loop[i][2][1]].timeout

\* The event loop runs the calls it was handed, and every Deferred a
\* generator yields is settled, or the timeout passes, at some time.
SpecGenFair == SpecGenLoop /\ []<>Awaited

----------------------------------------------------------------------------
(* The EventHandler specification: a caller binds listeners to the events   *)
(* of one EventHandler, a Connection, and fires them.                       *)

\* The events bound and fired: a one time event, a many times event and one
\* the EventHandler does not have.
EventNames == {"connection_made", "data_received", "missing"}

\* The n-th listener bound to an event: it returns 42 or it raises.
Listeners(n) == {<<"k42", n>>, <<"raise", n>>}

\* The number of listeners bound to the event of the Connection.
Bound(event) ==
    IF event \in DOMAIN conns[1].once THEN defs[conns[1].once[event]].nreg
    ELSE IF event \in DOMAIN conns[1].many THEN Len(conns[1].many[event])
    ELSE 0

\* The heap before the EventHandler is constructed.
NoHeap ==
    [defs |-> <<>>, fails |-> <<>>, errs |-> <<>>, prod |-> NoProducer, conns |-> <<>>,
     cons |-> <<>>, multi |-> <<>>, gens |-> <<>>, loop |-> <<>>, now |-> 0,
     ran |-> <<>>, oplog |-> <<>>]

InitEvents ==
    /\ world = "events"
    /\ defs = Connection(NoHeap, 1, 0).defs
    /\ conns = Connection(NoHeap, 1, 0).conns
    /\ ran = Connection(NoHeap, 1, 0).ran
    /\ fails = <<>>
    /\ errs = <<>>
    /\ prod = NoProducer
    /\ cons = <<>>
    /\ multi = <<>>
    /\ gens = <<>>
    /\ loop = <<>>
    /\ now = 0
    /\ oplog = <<>>
    /\ last = [op |-> "init", d |-> 0, arg |-> <<>>, err |-> ""]

BindEvent ==
    \E event \in EventNames :
        \E cb \in Listeners(Bound(event) + 1) :
            /\ Bound(event) < MaxListeners
            /\ Commit(bind_event(Heap, <<"conn", 1>>, event, cb))
            /\ last' = [op |-> "bind_event", d |-> 1, arg |-> <<event, cb>>, err |-> ""]
            /\ UNCHANGED world

FireEvent ==
    \E event \in EventNames, data \in {NOTHING, <<"int", 1>>, <<"exc", 0>>} :
        /\ data[1] = "exc" => Len(errs) < MaxRaised
        /\ Commit(fire_event(Heap, <<"conn", 1>>, event, data).h)
        /\ last' = [op |-> "fire_event", d |-> 1, arg |-> <<event, data>>,
                    err |-> fire_event(Heap, <<"conn", 1>>, event, data).err]
        /\ UNCHANGED world

NextEvents ==
    \/ BindEvent
    \/ FireEvent

SpecEvents == InitEvents /\ [][NextEvents]_vars

----------------------------------------------------------------------------
(* The Connection specification: one Connection, its transport, which       *)
(* connects, delivers data, is lost or closes, the consumers of the data,   *)
(* and the event loop, which calls _timed_out when the idle timer is due.   *)

\* The data the transport delivers, as sequences of bytes.
Chunks == {<<1>>, <<1, 2>>}

\* The number of _data_received calls made so far.
RECURSIVE Fed(_)
Fed(consumers) ==
    IF consumers = <<>> THEN 0
    ELSE Head(consumers).data_received_count + Fed(Tail(consumers))

InitConnection ==
    /\ world = "connection"
    /\ \E t \in {0, 30} :
          /\ defs = Connection(NoHeap, 1, t).defs
          /\ conns = Connection(NoHeap, 1, t).conns
          /\ ran = Connection(NoHeap, 1, t).ran
    /\ fails = <<>>
    /\ errs = <<>>
    /\ prod = NoProducer
    /\ cons = <<>>
    /\ multi = <<>>
    /\ gens = <<>>
    /\ loop = <<>>
    /\ now = 0
    /\ oplog = <<>>
    /\ last = [op |-> "init", d |-> 0, arg |-> <<>>, err |-> ""]

\* The transport delivers data; bs is what the consumers will do with it.
DataReceived ==
    \E c \in 1..Len(conns), data \in Chunks :
        \E bs \in [1..Len(data) -> Behaviours] :
            /\ conns[c].transport /\ ~conns[c].closed
            /\ ~defs[conns[c].once.connection_lost].called
            /\ Fed(cons) + Len(data) <= MaxFed
            /\ Commit(data_received(Heap, c, data, bs).h)
            /\ last' = [op |-> "data_received", d |-> c, arg |-> <<data, bs>>,
                        err |-> data_received(Heap, c, data, bs).err]
            /\ UNCHANGED world

\* The idle timer of Connection c is due.
TimerExpires ==
    \E c \in 1..Len(conns) :
        /\ conns[c].armed
        /\ Commit(_timed_out(Heap, c).h)
        /\ last' = [op |-> "_timed_out", d |-> c, arg |-> <<>>, err |-> ""]
        /\ UNCHANGED world

\* The transport, closing, reports the end of the connection.
TransportCloses ==
    \E c \in 1..Len(conns) :
        /\ conns[c].transport /\ conns[c].closed
        /\ ~defs[conns[c].once.connection_lost].called
        /\ Commit(connection_lost(Heap, c, None).h)
        /\ last' = [op |-> "connection_lost", d |-> c, arg |-> <<None>>,
                    err |-> connection_lost(Heap, c, None).err]
        /\ UNCHANGED world

NextConnection ==
    \/ ConnectionMade
    \/ DataReceived
    \/ TimerExpires
    \/ TransportCloses
    \/ ConnectionLost
    \/ NewConsumer

SpecConnection == InitConnection /\ [][NextConnection]_vars

\* Whether the transport of a Connection is closing: TransportCloses is enabled.
Closing ==
    \E c \in 1..Len(conns) :
        /\ conns[c].transport /\ conns[c].closed
        /\ ~defs[conns[c].once.connection_lost].called

\* A step that reports the end of a connection, told by what it leaves in last.
Reports == Closing /\ last'.op = "connection_lost"

\* A transport that closes does report it: weak fairness of TransportCloses,
\* WF_vars(TransportCloses), written with Closing for ENABLED TransportCloses.
SpecConnectionCloses == SpecConnection /\ ([]<>(~Closing) \/ []<><<Reports>>_vars)

\* The application binds a listener to post_request of Connection c.
BindPostRequest ==
    \E c \in 1..Len(conns) :
        /\ conns[c].many.post_request = <<>>
        /\ Commit(bind_event(Heap, <<"conn", c>>, "post_request", <<"k42", 1>>))
        /\ last' = [op |-> "bind_event", d |-> c,
                    arg |-> <<"post_request", <<"k42", 1>>>>, err |-> ""]
        /\ UNCHANGED world

\* Two Connections, the first with an idle timeout and the second without,
\* before their transports connect.
InitConsumers ==
    /\ world = "consumers"
    /\ defs = Connection(Connection(NoHeap, 1, 30), 2, 0).defs
    /\ conns = Connection(Connection(NoHeap, 1, 30), 2, 0).conns
    /\ ran = Connection(Connection(NoHeap, 1, 30), 2, 0).ran
    /\ fails = <<>>
    /\ errs = <<>>
    /\ prod = NoProducer
    /\ cons = <<>>
    /\ multi = <<>>
    /\ gens = <<>>
    /\ loop = <<>>
    /\ now = 0
    /\ oplog = <<>>
    /\ last = [op |-> "init", d |-> 0, arg |-> <<>>, err |-> ""]

NextConsumers ==
    \/ BindPostRequest
    \/ ConnectionMade
    \/ NewConsumer
    \/ Finished
    \/ ConnectionFinished
    \/ ConnectionLost

SpecConsumers == InitConsumers /\ [][NextConsumers]_vars

----------------------------------------------------------------------------
(* Properties of the Deferred *)

\* The positions of the handler invocations in a log.
Calls(log) == {i \in 1..Len(log) : log[i].e = "call"}

\* C1: callback settles a Deferred at most once.  A step that is d.callback(v)
\* with v a Deferred fails, one with d already called (and v no Deferred)
\* fails with AlreadyCalledError, and a callback that fails changes no
\* Deferred (called, result, queue, paused), no Failure, and runs no handler.
C1_SingleSettlement ==
    [][last'.op = "callback" =>
          /\ is_async(last'.arg[1]) => last'.err = "RuntimeError"
          /\ (~is_async(last'.arg[1]) /\ defs[last'.d].called)
                => last'.err = "AlreadyCalledError"
          /\ last'.err # "" =>
                /\ defs' = defs
                /\ fails' = fails
                /\ errs' = errs
                /\ ran' = ran
                /\ Calls(oplog') = {}]_vars

\* A second callback was refused on a paused Deferred whose queue holds a pair.
C1_Witness ==
    /\ last.op = "callback"
    /\ last.err = "AlreadyCalledError"
    /\ defs[last.d].paused = 1
    /\ defs[last.d].cbs # <<>>

\* C2: the pairs of a Deferred run in registration order (the i-th
\* invocation is that of the i-th pair registered, before or after the
\* callback), the first receives the value the Deferred was called with, each
\* later one the result its predecessor left (unless that was a Deferred to
\* wait on), and the errback is the handler exactly when that value is a
\* Failure.  A called Deferred that is not paused has run all its pairs.
C2_RegistrationOrder ==
    \A d \in DOMAIN ran :
        /\ \A i \in 1..Len(ran[d]) :
              /\ ran[d][i].n = i
              /\ ran[d][i].fn = IF is_failure(ran[d][i].arg) THEN ran[d][i].eb
                                ELSE ran[d][i].cb
              /\ i = 1 => ran[d][i].arg = defs[d].v0
              /\ (i > 1 /\ ~is_async(ran[d][i - 1].ret))
                    => ran[d][i].arg = ran[d][i - 1].ret
        /\ Len(ran[d]) + Len(defs[d].cbs) = defs[d].nreg
        /\ (defs[d].called /\ defs[d].paused = 0) => defs[d].cbs = <<>>

\* After a Failure, an errback returned 42 and a callback added after the
\* callback ran on 42.
C2_Witness ==
    /\ last.op = "add_callback"
    /\ Len(ran[last.d]) = 3
    /\ is_failure(ran[last.d][2].arg)
    /\ ran[last.d][2].fn = <<"k42", 0>>
    /\ ran[last.d][3].fn = <<"dbl", 0>>
    /\ ran[last.d][3].arg = <<"int", 42>>
    /\ Calls(oplog) # {}

\* The inner Deferred has no handlers but the continuations of its waiters.
OnlyWaiters ==
    /\ \A k \in 1..Len(ran[Inner]) : ran[Inner][k].fn[1] = "cont"
    /\ \A k \in 1..Len(defs[Inner].cbs) : defs[Inner].cbs[k].cb[1] = "cont"

\* C3: for every Deferred one of whose handlers returned the inner Deferred
\* when that was not yet called: while the inner is not called no further pair
\* of the outer has run and the outer is called and paused; and the pair that
\* runs next, after inner.callback(x), receives x.  This for every waiter of
\* an inner Deferred that has no handlers of its own.
C3_PauseAndResume ==
    OnlyWaiters =>
        \A o \in DOMAIN ran \ {Inner} : \A i \in 1..Len(ran[o]) :
            (ran[o][i].pend /\ ran[o][i].ret = <<"def", Inner>>) =>
                /\ ~defs[Inner].called =>
                      /\ i = Len(ran[o])
                      /\ defs[o].called
                      /\ defs[o].paused = 1
                /\ i < Len(ran[o]) =>
                      /\ defs[Inner].called
                      /\ ran[o][i + 1].arg = defs[Inner].v0

\* C4: a handler that raises leaves a Failure as the result, the error
\* appended after the records the result already held; the pair after it runs
\* its errback on that Failure, no pair runs twice (so the errback of the
\* raising pair is not invoked), and draining went on to the end of the queue.
C4_RaiseCaptured ==
    \A d \in DOMAIN ran : \A i \in 1..Len(ran[d]) :
        /\ \A j \in 1..Len(ran[d]) : ran[d][i].n = ran[d][j].n => i = j
        /\ ran[d][i].exc # "" =>
              /\ is_failure(ran[d][i].ret)
              /\ ran[d][i].tr = Append(ran[d][i].tr0, ran[d][i].exc)
              /\ is_failure(ran[d][i].arg) => ran[d][i].ret = ran[d][i].arg
              /\ i < Len(ran[d]) =>
                    /\ ran[d][i + 1].fn = ran[d][i + 1].eb
                    /\ ran[d][i + 1].arg = ran[d][i].ret
              /\ i = Len(ran[d]) => (defs[d].cbs = <<>> /\ defs[d].result = ran[d][i].ret)

\* A callback raised, the errback of the next pair returned 42, and the
\* result ended as 84.
C4_Witness ==
    \E d \in DOMAIN ran :
        /\ Len(ran[d]) = 3
        /\ ran[d][1].exc = "ValueError"
        /\ ran[d][1].fn = ran[d][1].cb
        /\ ran[d][2].fn = <<"k42", 0>>
        /\ defs[d].result = <<"int", 84>>

\* C5 as stated: result_or_self returns the result only when the Deferred is
\* called, its queue is empty and its pause depth is zero, and the Deferred
\* itself in every other state.
C5_ResultOrSelfAsStated ==
    last.op = "result_or_self" =>
        last.arg[1] = IF /\ defs[last.d].called
                         /\ defs[last.d].cbs = <<>>
                         /\ defs[last.d].paused = 0
                      THEN defs[last.d].result
                      ELSE <<"def", last.d>>

\* C5 amended: result_or_self returns the stored result exactly when the
\* Deferred is called and its queue is empty, whatever the pause depth, and
\* the Deferred itself otherwise; for a paused Deferred with an empty queue
\* the stored result is the Deferred it waits on.
C5_ResultOrSelf ==
    last.op = "result_or_self" =>
        /\ last.arg[1] = IF defs[last.d].called /\ defs[last.d].cbs = <<>>
                         THEN defs[last.d].result
                         ELSE <<"def", last.d>>
        /\ (defs[last.d].paused # 0 /\ defs[last.d].cbs = <<>>)
              => (is_async(last.arg[1]) /\ last.arg[1] # <<"def", last.d>>)

\* result_or_self was read on a paused Deferred with an empty queue.
C5_Witness ==
    /\ last.op = "result_or_self"
    /\ defs[last.d].called
    /\ defs[last.d].paused = 1
    /\ defs[last.d].cbs = <<>>
    /\ last.arg[1] = <<"def", Inner>>

\* The event that ends the add_callback call begun at position i of the log.
AddRet(i) ==
    CHOOSE j \in (i + 1)..Len(oplog) :
        /\ oplog[j].e = "addret"
        /\ oplog[j].d = oplog[i].d
        /\ oplog[j].n = oplog[i].n

\* C6: an add_callback on a Deferred that is called, not running, not paused
\* and has an empty queue invokes the selected handler of the new pair on the
\* result at once, inside the call, and the value it returns is stored as the
\* result; on a Deferred that is not called, is running or is paused the call
\* only appends the pair: no handler runs inside it and the result stays.
C6_AddCallbackRunsOrQueues ==
    \A i \in 1..Len(oplog) :
        oplog[i].e = "add" =>
            IF oplog[i].st[1] /\ ~oplog[i].st[2] /\ oplog[i].st[3] = 0 /\ oplog[i].st[4] = 0
            THEN /\ oplog[i + 1].e = "call"
                 /\ oplog[i + 1].d = oplog[i].d
                 /\ oplog[i + 1].n = oplog[i].n
                 /\ oplog[i + 1].v = oplog[i].v
                 /\ oplog[i + 1].fns[1] = IF is_failure(oplog[i].v) THEN oplog[i].fns[2]
                                          ELSE oplog[i].fns[1]
                 /\ \E k \in (i + 2)..(AddRet(i) - 1) :
                       /\ oplog[k].e \in {"ret", "raise"}
                       /\ oplog[k].d = oplog[i].d
                       /\ oplog[k].n = oplog[i].n
                       /\ (oplog[k].e = "ret" /\ ~is_async(oplog[k].o)) => oplog[k].v = oplog[k].o
                       /\ oplog[k].e = "raise" => is_failure(oplog[k].v)
            ELSE (~oplog[i].st[1] \/ oplog[i].st[2] \/ oplog[i].st[3] # 0) =>
                 /\ AddRet(i) = i + 1
                 /\ oplog[i + 1].st[4] = oplog[i].st[4] + 1
                 /\ oplog[i + 1].v = oplog[i].v

\* One call added a pair to a settled Deferred, whose handler ran at once and
\* itself added a pair while the Deferred was running.
C6_Witness ==
    \E i, j \in 1..Len(oplog) :
        /\ i < j
        /\ oplog[i].e = "add"
        /\ oplog[i].st = <<TRUE, FALSE, 0, 0>>
        /\ oplog[j].e = "add"
        /\ oplog[j].d = oplog[i].d
        /\ oplog[j].st[2]

----------------------------------------------------------------------------
(* Properties of the Producer *)

\* The Connections that have fired connection_lost.
LostConnections == {c \in 1..Len(conns) : defs[conns[c].once.connection_lost].called}

\* C7 (its second half; received never decreases is C7_ReceivedMonotone): in
\* every state in which each Connection handed out has had its
\* connection_made, concurrent_connections is received minus the number of
\* Connections that have fired connection_lost.
C7_ProducerAccounting ==
    (\A c \in 1..Len(conns) : defs[conns[c].once.connection_made].called)
        => concurrent_connections = prod.received - Cardinality(LostConnections)

\* C7, first half: received never decreases.
C7_ReceivedMonotone == [][prod'.received >= prod.received]_vars

----------------------------------------------------------------------------
(* Properties of the MultiDeferred *)

\* Every Deferred inside the cell, at any depth, has been called.
RECURSIVE AllSettled(_)
AllSettled(cell) ==
    CASE cell[1] = "def" -> defs[cell[2]].called
      [] cell[1] = "list" -> \A i \in 1..Len(cell[2]) : AllSettled(cell[2][i])
      [] cell[1] = "dict" -> \A i \in 1..Len(cell[2]) : AllSettled(cell[2][i][2])
      [] OTHER -> TRUE

\* The cell with every Deferred inside it replaced by its result.
RECURSIVE Settled(_)
Settled(cell) ==
    CASE cell[1] = "def" -> defs[cell[2]].result
      [] cell[1] = "list" -> List([i \in 1..Len(cell[2]) |-> Settled(cell[2][i])])
      [] cell[1] = "dict" ->
            Dict([i \in 1..Len(cell[2]) |-> <<cell[2][i][1], Settled(cell[2][i][2])>>])
      [] OTHER -> cell

\* The cell is a Failure, a Deferred called with a Failure, or a collection
\* with such a cell at some depth; records says which Failures count.
RECURSIVE Failed(_, _)
Failed(cell, records) ==
    CASE cell[1] = "fail" -> Len(fails[cell[2]]) \in records
      [] cell[1] = "def" ->
            /\ defs[cell[2]].called
            /\ is_failure(defs[cell[2]].result)
            /\ Len(fails[defs[cell[2]].result[2]]) \in records
      [] cell[1] = "list" -> \E i \in 1..Len(cell[2]) : Failed(cell[2][i], records)
      [] cell[1] = "dict" -> \E i \in 1..Len(cell[2]) : Failed(cell[2][i][2], records)
      [] OTHER -> FALSE

\* The cells of a collection.
Cells(data) ==
    IF data[1] = "list" THEN {data[2][i] : i \in 1..Len(data[2])}
    ELSE {data[2][i][2] : i \in 1..Len(data[2])}

\* C8: a MultiDeferred without fireOnOneErrback, nested ones included, is not
\* called while a Deferred inside its collection, at any depth, is not called;
\* once it is locked and all of them are called it is called, and its result is
\* the collection, same type, keys and nesting, with each Deferred replaced by
\* the value it settled with.
C8_SettlesWithSameShape ==
    \A m \in 1..Len(multi) :
        ~multi[m].fireOnOneErrback =>
            /\ defs[multi[m].self].called =>
                  /\ AllSettled(multi[m].data)
                  /\ defs[multi[m].self].result = Settled(multi[m].data)
            /\ (multi[m].locked /\ AllSettled(multi[m].data)) => defs[multi[m].self].called

\* The example of C8: {x:1, y:a, z:[10,20]} was locked, then a.callback(9)
\* settled it with {x:1, y:9, z:[10,20]}.
C8_Witness ==
    /\ last.op = "callback"
    /\ \E m \in 1..Len(multi) :
          /\ multi[m].top /\ multi[m].locked /\ ~multi[m].fireOnOneErrback
          /\ multi[m].data = Collections[10]
          /\ defs[multi[m].self].called
          /\ defs[multi[m].self].result =
                Dict(<< <<"x", IntCell(1)>>, <<"y", IntCell(9)>>,
                        <<"z", List(<<IntCell(10), IntCell(20)>>)>> >>)

\* C9 as stated: a locked MultiDeferred with fireOnOneErrback is called as soon
\* as one of its Deferreds has settled with a Failure.
C9_FiresOnFirstError ==
    \A m \in 1..Len(multi) :
        (/\ multi[m].locked
         /\ multi[m].fireOnOneErrback
         /\ \E cell \in Cells(multi[m].data) :
               /\ is_async(cell)
               /\ defs[cell[2]].called
               /\ is_failure(defs[cell[2]].result))
            => defs[multi[m].self].called

\* C9: a MultiDeferred with fireOnOneErrback is called exactly when it is
\* locked and every Deferred inside its collection is called; a Deferred that
\* settled with a Failure does not settle it while another one is pending.
C9_FiresWhenAllSettled ==
    \A m \in 1..Len(multi) :
        multi[m].fireOnOneErrback =>
            (defs[multi[m].self].called <=>
                (multi[m].locked /\ AllSettled(multi[m].data)))

\* A locked MultiDeferred with fireOnOneErrback over [a, b]: a settled with a
\* Failure, b is pending, and the MultiDeferred is not called.
C9_Witness ==
    \E m \in 1..Len(multi) :
        /\ multi[m].locked /\ multi[m].fireOnOneErrback
        /\ multi[m].data = List(<<DefA, DefB>>)
        /\ defs[1].called /\ is_failure(defs[1].result)
        /\ ~defs[2].called
        /\ ~defs[multi[m].self].called

\* C10 as stated: a MultiDeferred with fireOnOneErrback settles with its
\* accumulated Failure exactly when a cell of its collection is a Failure, a
\* Deferred called with a Failure, or a failed nested collection.
C10_FailureIffAnyFailure ==
    \A m \in 1..Len(multi) :
        (multi[m].fireOnOneErrback /\ defs[multi[m].self].called) =>
            (defs[multi[m].self].result = <<"fail", multi[m].failures>>
                <=> Failed(multi[m].data, Nat))

\* C10: a MultiDeferred with fireOnOneErrback settles with its accumulated
\* Failure exactly when a cell of its collection, at any depth, is a Failure
\* that holds at least one error record or a Deferred called with one; when
\* there is none it settles with the collection (a Failure that holds no
\* record stays in its cell).
C10_FailureIffAnyError ==
    \A m \in 1..Len(multi) :
        (multi[m].fireOnOneErrback /\ defs[multi[m].self].called) =>
            /\ defs[multi[m].self].result = <<"fail", multi[m].failures>>
                  <=> Failed(multi[m].data, Nat \ {0})
            /\ ~Failed(multi[m].data, Nat \ {0}) =>
                  defs[multi[m].self].result = Settled(multi[m].data)

\* A MultiDeferred with fireOnOneErrback over [a, [f]], f a Failure with a
\* record: a settled with 9 and the MultiDeferred with its Failures, which hold
\* the record of f.
C10_Witness ==
    \E m \in 1..Len(multi) :
        /\ multi[m].top /\ multi[m].fireOnOneErrback /\ defs[multi[m].self].called
        /\ multi[m].data = List(<<DefA, List(<<AFailure>>)>>)
        /\ defs[1].result = IntCell(9)
        /\ defs[multi[m].self].result = <<"fail", multi[m].failures>>
        /\ fails[multi[m].failures] = fails[1]

----------------------------------------------------------------------------
(* Properties of the DeferredGenerator *)

\* Whether the driver met an error at this step.
IsError(v) == is_failure(v) \/ v[1] = "raised"

\* The errors in seen since the last CLEAR_ERRORS.
RECURSIVE ErrorsSince(_)
ErrorsSince(seen) ==
    IF seen = <<>> \/ seen[Len(seen)] = CLEAR_ERRORS THEN 0
    ELSE ErrorsSince(SubSeq(seen, 1, Len(seen) - 1))
             + (IF IsError(seen[Len(seen)]) THEN 1 ELSE 0)

\* Whether the DeferredGenerator settled, other than by its timeout.
Concluded(g) == defs[gens[g].self].called /\ ~gens[g].timedout

\* C11: with max_errors = k > 0 a DeferredGenerator is settled as soon as k
\* errors have accumulated: an unsettled one holds fewer than k, and one that
\* holds k took no step after the k-th and has a Failure with the k errors as
\* its result.  With max_errors 0 or unset it settles only once the generator
\* raised StopIteration.
C11_StopsAtMaxErrors ==
    \A g \in 1..Len(gens) :
        /\ gens[g].max_errors > 0 =>
              /\ ~defs[gens[g].self].called => ErrorsSince(gens[g].seen) < gens[g].max_errors
              /\ (Concluded(g) /\ ErrorsSince(gens[g].seen) >= gens[g].max_errors) =>
                    /\ ErrorsSince(gens[g].seen) = gens[g].max_errors
                    /\ IsError(gens[g].seen[Len(gens[g].seen)])
                    /\ gens[g].pc = Len(gens[g].seen)
                    /\ ~gens[g].stopped
                    /\ is_failure(defs[gens[g].self].result)
                    /\ Len(fails[defs[gens[g].self].result[2]]) = gens[g].max_errors
              /\ (Concluded(g) /\ ErrorsSince(gens[g].seen) < gens[g].max_errors) =>
                    gens[g].stopped
        /\ (gens[g].max_errors = 0 /\ Concluded(g)) =>
              /\ gens[g].stopped
              /\ gens[g].pc = Len(gens[g].gen) \/ gens[g].seen[gens[g].pc] = <<"raised", 0>>

\* A generator that yields an exception, a Failure and then 3, driven with
\* max_errors = 2:
\* it settled after the second with a Failure of two records, and 3 was never
\* asked for.
C11_Witness ==
    \E g \in 1..Len(gens) :
        /\ gens[g].gen = Generators[5] /\ gens[g].max_errors = 2
        /\ gens[g].pc = 2 /\ defs[gens[g].self].called
        /\ is_failure(defs[gens[g].self].result)
        /\ Len(fails[defs[gens[g].self].result[2]]) = 2

\* The number of times v occurs in the sequence.
RECURSIVE Count(_, _)
Count(seq, v) ==
    IF seq = <<>> THEN 0
    ELSE Count(Tail(seq), v) + (IF Head(seq) = v THEN 1 ELSE 0)

\* C12: for every NOT_DONE the generator yielded the driver handed exactly one
\* _consume to the event loop, and only the event loop takes the next step:
\* while the call waits the generator stands at the NOT_DONE and the
\* DeferredGenerator is unsettled.  The generator that yields NOT_DONE and
\* then 7 is unsettled after its construction and until a turn of the loop,
\* and then settles with 7.
C12_NotDoneYieldsToLoop ==
    /\ [](\A g \in 1..Len(gens) :
            /\ Count(gens[g].seen, NOT_DONE)
                  = gens[g].resumed + Count(loop, <<"_consume", g>>)
            /\ Count(loop, <<"_consume", g>>) <= 1
            /\ Count(loop, <<"_consume", g>>) = 1 =>
                  /\ gens[g].seen[Len(gens[g].seen)] = NOT_DONE
                  /\ gens[g].pc = Len(gens[g].seen)
                  /\ ~defs[gens[g].self].called
            /\ gens[g].gen = Generators[2] =>
                  /\ (last.op = "DeferredGenerator" /\ last.d = g) =>
                        (gens[g].pc = 1 /\ ~defs[gens[g].self].called)
                  /\ defs[gens[g].self].called =>
                        (gens[g].resumed = 1 /\ defs[gens[g].self].result = IntCell(7)))
    /\ \A g \in 1..MaxGens :
          (IF g <= Len(gens) THEN gens[g].gen = Generators[2] ELSE FALSE)
              ~> (IF g <= Len(gens)
                  THEN defs[gens[g].self].called
                          /\ defs[gens[g].self].result = IntCell(7)
                  ELSE FALSE)

\* The generator that yields NOT_DONE and then 7, settled with 7 by the turn
\* of the loop.
C12_Witness ==
    \E g \in 1..Len(gens) :
        /\ gens[g].gen = Generators[2] /\ last.op = "loop"
        /\ last.arg = << <<"_consume", g>> >>
        /\ defs[gens[g].self].called /\ defs[gens[g].self].result = IntCell(7)

\* The check of Deferred d that the event loop has just run for g.
Polled(g, d) == last.op = "loop" /\ last.arg = << <<"_check_async", <<g, d>>>> >>

\* C13: a check of the awaited Deferred that finds it unsettled more than
\* timeout seconds after the start of the step settles the DeferredGenerator
\* with a Failure that holds the timeout error alone and schedules nothing;
\* within the timeout it schedules itself once more and takes no step; one
\* that finds it settled hands its result to the generator as the value of
\* the step.  While a check is scheduled the DeferredGenerator is unsettled.
C13_PollsUntilTimeout ==
    \A g \in 1..Len(gens) : \A d \in 1..Len(defs) :
        /\ Count(loop, <<"_check_async", <<g, d>>>>) <= 1
        /\ Count(loop, <<"_check_async", <<g, d>>>>) = 1 =>
              /\ ~defs[gens[g].self].called
              /\ gens[g].pc = Len(gens[g].seen) + 1
              /\ gens[g].gen[gens[g].pc] = Yield(<<"def", d>>)
        /\ (Polled(g, d) /\ ~defs[d].called) =>
              IF now - gens[g].start > gens[g].timeout
              THEN /\ gens[g].timedout /\ defs[gens[g].self].called
                   /\ is_failure(defs[gens[g].self].result)
                   /\ Len(fails[defs[gens[g].self].result[2]]) = 1
                   /\ errs[fails[defs[gens[g].self].result[2]][1]].kind = "RuntimeError"
                   /\ Count(loop, <<"_check_async", <<g, d>>>>) = 0
                   /\ gens[g].pc = Len(gens[g].seen) + 1
              ELSE /\ Count(loop, <<"_check_async", <<g, d>>>>) = 1
                   /\ ~gens[g].timedout
        /\ (Polled(g, d) /\ defs[d].called) =>
              /\ ~gens[g].timedout
              /\ Count(loop, <<"_check_async", <<g, d>>>>) = 0
              /\ \E i \in 1..Len(gens[g].seen) :
                    /\ gens[g].gen[i] = Yield(<<"def", d>>)
                    /\ gens[g].seen[i] = defs[d].result

\* A DeferredGenerator with a timeout of one second whose generator yields the
\* unsettled Deferred: the check two seconds later settled it with the
\* timeout error.
C13_Witness ==
    \E g \in 1..Len(gens) :
        /\ Polled(g, 1) /\ ~defs[1].called
        /\ gens[g].timeout = 1 /\ now - gens[g].start = 2
        /\ gens[g].timedout /\ defs[gens[g].self].called
        /\ is_failure(defs[gens[g].self].result)

\* Whether the driver handed v on as the value of a step.
IsValue(v) == ~IsError(v) /\ v # NOT_DONE /\ v # CLEAR_ERRORS

\* The last value in seen, None when it has none.
RECURSIVE FinalValue(_)
FinalValue(seen) ==
    IF seen = <<>> THEN None
    ELSE IF IsValue(seen[Len(seen)]) THEN seen[Len(seen)]
    ELSE FinalValue(SubSeq(seen, 1, Len(seen) - 1))

\* A DeferredGenerator that met CLEAR_ERRORS, no error after the last one, and
\* ended with StopIteration.
ClearedAndEnded(g) ==
    /\ Concluded(g) /\ gens[g].stopped
    /\ Count(gens[g].seen, CLEAR_ERRORS) > 0
    /\ ErrorsSince(gens[g].seen) = 0

\* C14 as stated: a DeferredGenerator whose generator yielded CLEAR_ERRORS and
\* met no error afterwards settles with the last value, neither error nor
\* marker, that the generator yielded.
C14_SettlesWithFinalValue ==
    \A g \in 1..Len(gens) :
        ClearedAndEnded(g) => defs[gens[g].self].result = FinalValue(gens[g].seen)

\* C14: after CLEAR_ERRORS the accumulated errors are those met since, and the
\* driver took the next step of the generator at once; a DeferredGenerator
\* whose generator met no error after the last CLEAR_ERRORS and ended settles
\* with the value of the last step, which is None when that step yielded
\* CLEAR_ERRORS or NOT_DONE, and never with a Failure.
C14_ClearErrors ==
    \A g \in 1..Len(gens) :
        /\ ~defs[gens[g].self].called =>
              Len(fails[gens[g].errors]) = ErrorsSince(gens[g].seen)
        /\ \A i \in 1..Len(gens[g].seen) :
              gens[g].seen[i] = CLEAR_ERRORS => (gens[g].pc > i \/ gens[g].stopped)
        /\ ClearedAndEnded(g) =>
              /\ ~is_failure(defs[gens[g].self].result)
              /\ defs[gens[g].self].result
                    = (IF IsValue(gens[g].seen[Len(gens[g].seen)])
                       THEN gens[g].seen[Len(gens[g].seen)] ELSE None)

\* The generator that yields an error, CLEAR_ERRORS and 4, driven with
\* max_errors unset: it settled with 4.
C14_Witness ==
    \E g \in 1..Len(gens) :
        /\ gens[g].gen = Generators[7] /\ gens[g].max_errors = 0
        /\ ClearedAndEnded(g)
        /\ defs[gens[g].self].result = IntCell(4)

----------------------------------------------------------------------------
(* Properties of the EventHandler *)

\* The listeners the last operation invoked, in order.
Listens(log) == SelectSeq(log, LAMBDA ev : ev.e = "listen")

\* Whether value v is the event data fire_event dispatches for its argument:
\* the EventHandler when omitted, a Failure of the exception, or the argument.
IsEventData(v, data, fs, es) ==
    IF data = NOTHING THEN v = <<"conn", 1>>
    ELSE IF data[1] = "exc"
    THEN is_failure(v) /\ Len(fs[v[2]]) = 1 /\ es[fs[v[2]][1]].kind = "ValueError"
    ELSE v = data

\* C15: the first fire_event of a one time event settles its Deferred with the
\* event data and raises nothing; every later one raises AlreadyCalledError,
\* invokes no listener and leaves the Deferred as it was.
C15_OneTimeEventFiresOnce ==
    [][\A event \in DOMAIN conns[1].once :
          (last'.op = "fire_event" /\ last'.arg[1] = event) =>
              IF ~defs[conns[1].once[event]].called
              THEN /\ last'.err = ""
                   /\ defs'[conns[1].once[event]].called
                   /\ IsEventData(defs'[conns[1].once[event]].result, last'.arg[2],
                                  fails', errs')
              ELSE /\ last'.err = "AlreadyCalledError"
                   /\ defs'[conns[1].once[event]] = defs[conns[1].once[event]]
                   /\ ran'[conns[1].once[event]] = ran[conns[1].once[event]]
                   /\ Listens(oplog') = <<>>]_vars

\* connection_made fired twice with two listeners bound: the second
\* fire_event raised, and the Deferred holds the data of the first.
C15_Witness ==
    /\ last.op = "fire_event" /\ last.arg = <<"connection_made", NOTHING>>
    /\ last.err = "AlreadyCalledError"
    /\ defs[conns[1].once["connection_made"]].nreg = 2
    /\ defs[conns[1].once["connection_made"]].result = <<"int", 1>>

\* C16: fire_event of a many times event raises nothing and invokes every
\* listener bound to it exactly once, the n-th bound as the n-th, each with
\* the event data of the call, whether or not a listener before it raised.
C16_ManyTimesEventRunsAll ==
    \A event \in DOMAIN conns[1].many :
        (last.op = "fire_event" /\ last.arg[1] = event) =>
            /\ last.err = ""
            /\ Len(Listens(oplog)) = Len(conns[1].many[event])
            /\ \A n \in 1..Len(Listens(oplog)) :
                  /\ Listens(oplog)[n].fns[1][2] = n
                  /\ conns[1].many[event][n] = <<"safe", Listens(oplog)[n].fns[1]>>
                  /\ IsEventData(Listens(oplog)[n].v, last.arg[2], fails, errs)
                  /\ Listens(oplog)[n].v = Listens(oplog)[1].v
                  /\ Listens(oplog)[n].o
                        = (IF Listens(oplog)[n].fns[1][1] = "raise" THEN <<"exc", 0>>
                           ELSE <<"int", 42>>)

\* data_received fired with an exception, a listener that raises bound first
\* and one that returns bound second: both were invoked, with the Failure.
C16_Witness ==
    /\ last.op = "fire_event" /\ last.arg = <<"data_received", <<"exc", 0>>>>
    /\ Len(Listens(oplog)) = 2
    /\ Listens(oplog)[1].fns = << <<"raise", 1>> >>
    /\ Listens(oplog)[2].fns = << <<"k42", 2>> >>
    /\ is_failure(Listens(oplog)[2].v)

\* C17: the listeners bound to a one time event are invoked once each, the
\* n-th bound as the n-th, with the value the event was fired with: none
\* before the event is fired, at fire_event those bound by then, and one
\* bound later inside its bind_event.
C17_OneTimeListeners ==
    \A event \in DOMAIN conns[1].once :
        IF ~defs[conns[1].once[event]].called
        THEN /\ ran[conns[1].once[event]] = <<>>
             /\ (last.op = "bind_event" /\ last.arg[1] = event) => Listens(oplog) = <<>>
        ELSE /\ Len(ran[conns[1].once[event]]) = defs[conns[1].once[event]].nreg
             /\ \A n \in 1..Len(ran[conns[1].once[event]]) :
                   /\ ran[conns[1].once[event]][n].n = n
                   /\ ran[conns[1].once[event]][n].fn[1] = "safe"
                   /\ ran[conns[1].once[event]][n].fn[2][2] = n
                   /\ ran[conns[1].once[event]][n].arg = defs[conns[1].once[event]].v0
                   /\ ran[conns[1].once[event]][n].exc = ""
             /\ defs[conns[1].once[event]].result = defs[conns[1].once[event]].v0
             /\ (last.op = "fire_event" /\ last.arg[1] = event /\ last.err = "") =>
                   /\ Len(Listens(oplog)) = defs[conns[1].once[event]].nreg
                   /\ \A n \in 1..Len(Listens(oplog)) :
                         /\ Listens(oplog)[n].fns[1][2] = n
                         /\ Listens(oplog)[n].v = defs[conns[1].once[event]].v0
             /\ (last.op = "bind_event" /\ last.arg[1] = event) =>
                   /\ Len(Listens(oplog)) = 1
                   /\ Listens(oplog)[1].fns = <<last.arg[2]>>
                   /\ Listens(oplog)[1].fns[1][2] = defs[conns[1].once[event]].nreg
                   /\ Listens(oplog)[1].v = defs[conns[1].once[event]].v0

\* connection_made fired with an exception after a listener that raises was
\* bound, and a second listener bound afterwards: bind_event invoked it with
\* the Failure.
C17_Witness ==
    /\ last.op = "bind_event" /\ last.arg = <<"connection_made", <<"k42", 2>>>>
    /\ defs[conns[1].once["connection_made"]].called
    /\ is_failure(defs[conns[1].once["connection_made"]].v0)
    /\ ran[conns[1].once["connection_made"]][1].fn = <<"safe", <<"raise", 1>>>>
    /\ Len(Listens(oplog)) = 1
    /\ Listens(oplog)[1].v = defs[conns[1].once["connection_made"]].v0

----------------------------------------------------------------------------
(* Properties of the Producer and its Connections *)

Feeds(log) == SelectSeq(log, LAMBDA ev : ev.e = "feed")

\* C20: data_received hands the data to the current consumer, or to a new
\* one when there is none.  When a consumer returns leftover bytes and is
\* still the current consumer, data_received raises ProtocolError and calls no
\* further consumer; when it returns leftover bytes and the Connection has
\* no current consumer any more, a consumer that did not exist before is
\* created and is called with the leftover; when nothing is left the pass
\* ends without an exception.
C20_Leftover ==
    last.op = "data_received" =>
        /\ Len(Feeds(oplog)) >= 1
        /\ Feeds(oplog)[1].v = last.arg[1]
        /\ \A i \in 1..Len(Feeds(oplog)) :
              /\ Feeds(oplog)[i].fns = <<last.arg[2][i]>>
              /\ Feeds(oplog)[i].o
                    = (IF last.arg[2][i] \in {"keep", "finish"}
                       THEN Tail(Feeds(oplog)[i].v) ELSE <<>>)
              /\ IF Feeds(oplog)[i].o = <<>>
                 THEN i = Len(Feeds(oplog)) /\ last.err = ""
                 ELSE IF Feeds(oplog)[i].st # 0
                 THEN /\ i = Len(Feeds(oplog)) /\ last.err = "ProtocolError"
                      /\ Feeds(oplog)[i].st = Feeds(oplog)[i].d
                 ELSE /\ i < Len(Feeds(oplog))
                      /\ Feeds(oplog)[i + 1].v = Feeds(oplog)[i].o
                      /\ Feeds(oplog)[i + 1].d > Feeds(oplog)[i].d
                      /\ cons[Feeds(oplog)[i + 1].d].data_received_count = 1
                      /\ cons[Feeds(oplog)[i].d].connection = 0

\* Two bytes delivered to a Connection without a consumer: the consumer made
\* for them finished and returned the second byte, and a second consumer was
\* made and called with it.
C20_Witness ==
    /\ last.op = "data_received" /\ last.arg[1] = <<1, 2>> /\ last.err = ""
    /\ last.arg[2][1] = "finish"
    /\ Len(Feeds(oplog)) = 2
    /\ Feeds(oplog)[1].d = 1 /\ Feeds(oplog)[2].d = 2
    /\ Feeds(oplog)[2].v = <<2>>

----------------------------------------------------------------------------
(* Failure: append, log, raise_all *)

\* The number of exceptions one Failure is handed.
MaxTraces == 3

ExceptionClasses == {"ValueError", "RuntimeError"}

\* isinstance(error, Exception) for the error of a record.
IsException(error) == error.kind \in ExceptionClasses

\* The first branch of raise_all: traces.pop(), log(), raise_error_trace.
PopAndRaise(h, f, n) ==
    [h |-> Failure_log([h EXCEPT !.fails[f] = SubSeq(@, 1, n - 1)], f),
     error |-> h.fails[f][n], err |-> h.errs[h.fails[f][n]].kind]

\* The second branch of raise_all: log(), then DeferredFailure when a record
\* is left.
LogAndRaise(h, f) ==
    [h |-> Failure_log(h, f), error |-> 0,
     err |-> IF h.fails[f] = <<>> THEN "" ELSE "DeferredFailure"]

\* Failure.raise_all(first): error is the record whose exception is re-raised.
raise_all(h, f, first) ==
    IF h.fails[f] # <<>>
       /\ IsException(h.errs[h.fails[f][IF first THEN 1 ELSE Len(h.fails[f])]])
    THEN PopAndRaise(h, f, Len(h.fails[f]))
    ELSE LogAndRaise(h, f)

\* One Failure, made by Failure() or by Failure(err).
InitFailure ==
    /\ world = "failure"
    /\ \E h \in {Failure(NoHeap).h} \cup {NewFailure(NoHeap, k).h : k \in ExceptionClasses} :
          /\ fails = h.fails
          /\ errs = h.errs
    /\ defs = <<>>
    /\ prod = NoProducer
    /\ conns = <<>>
    /\ cons = <<>>
    /\ multi = <<>>
    /\ gens = <<>>
    /\ loop = <<>>
    /\ now = 0
    /\ ran = <<>>
    /\ oplog = <<>>
    /\ last = [op |-> "init", d |-> 0, arg |-> <<>>, err |-> ""]

FailureAppend ==
    /\ Len(errs) < MaxTraces
    /\ \E k \in ExceptionClasses :
          /\ Commit(Failure_append(Heap, 1, k))
          /\ last' = [op |-> "append", d |-> 1, arg |-> <<fails[1]>>, err |-> ""]
    /\ UNCHANGED world

FailureLog ==
    /\ Commit(Failure_log(Heap, 1))
    /\ last' = [op |-> "log", d |-> 1, arg |-> <<fails[1]>>, err |-> ""]
    /\ UNCHANGED world

FailureRaiseAll ==
    /\ \E first \in BOOLEAN :
          /\ Commit(raise_all(Heap, 1, first).h)
          /\ last' = [op |-> "raise_all", d |-> 1,
                      arg |-> <<fails[1], IF first THEN 1 ELSE Len(fails[1]),
                                raise_all(Heap, 1, first).error>>,
                      err |-> raise_all(Heap, 1, first).err]
    /\ UNCHANGED world

NextFailure == FailureAppend \/ FailureLog \/ FailureRaiseAll

SpecFailure == InitFailure /\ [][NextFailure]_vars

\* C21: a Failure is logged at most once: no record of it is emitted by a
\* second log(), whatever was appended in between.
C21_LoggedOnce == \A e \in 1..Len(errs) : errs[e].emits <= 1

\* The sequence without its element at pos.
Remove(seq, pos) == SubSeq(seq, 1, pos - 1) \o SubSeq(seq, pos + 1, Len(seq))

\* C28: raise_all on a Failure holding records removes and re-raises the
\* record at the position first selects (the first record for first=true,
\* the last otherwise) and leaves the other records in their order.
C28_RaisesSelected ==
    (last.op = "raise_all" /\ last.arg[1] # <<>>)
        => /\ last.arg[3] = last.arg[1][last.arg[2]]
           /\ fails[1] = Remove(last.arg[1], last.arg[2])

\* C22: the continuation an outer Deferred chains onto the Deferred it is
\* paused on returns the result it was given: a called Deferred whose only
\* handlers so far were such continuations still holds the result it was
\* called with, whatever the resumed Deferreds made of it.
C22_ContinuationReturnsGiven ==
    \A d \in DOMAIN defs :
        (/\ defs[d].called
         /\ ran[d] # <<>>
         /\ \A i \in 1..Len(ran[d]) : ran[d][i].fn[1] = "cont")
            => defs[d].result = defs[d].v0

\* The event at k is the return (or the raise) of a handler of Deferred d.
Returns(k, d) == oplog[k].e \in {"ret", "raise"} /\ oplog[k].d = d

\* C23: draining is not re-entrant.  Of two handler invocations of one
\* Deferred in an operation the earlier has returned before the later begins
\* and belongs to the pair registered earlier; and an add_callback made on a
\* Deferred while one of its handlers runs only appends the pair and returns:
\* the new pair is invoked after the running handler has returned.
C23_NotReentrant ==
    /\ \A i, j \in 1..Len(oplog) :
          (i < j /\ oplog[i].e = "call" /\ oplog[j].e = "call" /\ oplog[i].d = oplog[j].d)
             => /\ oplog[i].n < oplog[j].n
                /\ \E k \in (i + 1)..(j - 1) : Returns(k, oplog[i].d) /\ oplog[k].n = oplog[i].n
    /\ \A i \in 1..Len(oplog) :
          (oplog[i].e = "add" /\ oplog[i].st[2]) =>
             /\ AddRet(i) = i + 1
             /\ oplog[i + 1].st[4] = oplog[i].st[4] + 1
             /\ oplog[i + 1].st[2]
             /\ \A j \in (i + 2)..Len(oplog) :
                   (oplog[j].e = "call" /\ oplog[j].d = oplog[i].d /\ oplog[j].n = oplog[i].n)
                      => \E k \in (i + 2)..(j - 1) :
                            Returns(k, oplog[i].d) /\ oplog[k].n < oplog[i].n

\* A handler of a Deferred added a pair to it while it ran, with another pair
\* still queued, and the new pair was invoked later in the same operation.
C23_Witness ==
    \E i, j \in 1..Len(oplog) :
        /\ i < j
        /\ oplog[i].e = "add"
        /\ oplog[i].st[2]
        /\ oplog[i].st[4] > 0
        /\ oplog[j].e = "call"
        /\ oplog[j].d = oplog[i].d
        /\ oplog[j].n = oplog[i].n

\* The invocations of Deferred d that left it a Deferred to wait on.
Pauses(d) == {i \in 1..Len(ran[d]) : is_async(ran[d][i].ret)}

\* The invocations, on any Deferred, of the continuation of Deferred d.
Resumes(d) ==
    UNION {{<<t, k>> : k \in {j \in 1..Len(ran[t]) : ran[t][j].fn = <<"cont", d>>}} :
           t \in DOMAIN ran}

\* C30: the pause counter of every Deferred is 0 or 1: it is the number of
\* times a handler left the Deferred a pending Deferred to wait on less the
\* number of times its continuation ran, it is 1 exactly while the result is
\* a Deferred, and every handler invocation and every add_callback of
\* an operation finds it 0 or 1, an invocation finds it 0.
C30_PauseDepth ==
    /\ \A d \in DOMAIN defs :
          /\ defs[d].paused \in {0, 1}
          /\ defs[d].paused = Cardinality(Pauses(d)) - Cardinality(Resumes(d))
          /\ defs[d].paused = 1 <=> (defs[d].called /\ is_async(defs[d].result))
    /\ \A i \in 1..Len(oplog) :
          /\ oplog[i].e \in {"call", "add", "addret"} => oplog[i].st[3] \in {0, 1}
          /\ oplog[i].e = "call" => oplog[i].st[3] = 0

\* A Deferred paused, was resumed by its continuation, and ran a further
\* handler after that.
C30_Witness ==
    \E d \in DOMAIN defs : \E i \in Pauses(d) :
        /\ defs[d].paused = 0
        /\ Resumes(d) # {}
        /\ i < Len(ran[d])

----------------------------------------------------------------------------
(* MultiDeferred: update and append after construction *)

\* The number of cells update and append fill, of records they add and of
\* pairs they register on one Deferred.
MaxCells == 3

\* The streams handed to update, for a MultiDeferred of the type.
Streams(type) ==
    IF type = "list"
    THEN {List(<<DefA>>), List(<<IntCell(1), DefB>>), List(<<List(<<DefB>>)>>)}
    ELSE {Dict(<< <<"x", DefA>> >>), Dict(<< <<"x", DefB>>, <<"y", IntCell(1)>> >>)}

\* MultiDeferred(type=type, fireOnOneErrback=f), the one the caller adds to.
NewEmptyMulti ==
    \E type \in {"list", "dict"}, f \in BOOLEAN :
        /\ Constructed = {}
        /\ Commit([MultiDeferred(Heap, <<type, <<>>>>, f)
                      EXCEPT !.multi[Len(multi) + 1].top = TRUE])
        /\ last' = [op |-> "MultiDeferred", d |-> Len(multi) + 1,
                    arg |-> <<type, f>>, err |-> ""]
        /\ UNCHANGED world

\* The caller may add to m: the bound on its cells, on the records of its
\* Failure and on the pairs.
MayGrow(m) ==
    /\ Len(multi[m].stream) < MaxCells
    /\ Len(fails[multi[m].failures]) < MaxCells
    /\ \A d \in {1, 2} : defs[d].nreg < MaxCells

\* m.update(stream)
Update ==
    \E m \in Constructed : \E s \in Streams(multi[m].type) :
        /\ MayGrow(m)
        /\ Commit(update(Heap, m, iterdata(s, Len(multi[m].stream))).h)
        /\ last' = [op |-> "update", d |-> m, arg |-> <<s>>,
                    err |-> update(Heap, m, iterdata(s, Len(multi[m].stream))).err]
        /\ UNCHANGED world

\* m.append(value)
AppendValue ==
    \E m \in Constructed : \E v \in {DefA, IntCell(1)} :
        /\ MayGrow(m)
        /\ Commit(append(Heap, m, v).h)
        /\ last' = [op |-> "append", d |-> m, arg |-> <<v>>, err |-> append(Heap, m, v).err]
        /\ UNCHANGED world

NextMultiAdd ==
    \/ NewEmptyMulti
    \/ Update
    \/ AppendValue
    \/ Lock
    \/ ChildCallback

SpecMultiAdd == InitMulti /\ [][NextMultiAdd]_vars

\* C24: after every construction, update, append, lock and child settlement
\* a MultiDeferred, nested ones included, is called exactly when it is locked
\* and its pending set is empty; lock on a locked MultiDeferred, and update
\* and append on a locked one, fail and change nothing, and lock on an
\* unlocked one succeeds.
C24_CalledIffLockedAndNonePending ==
    [][/\ \A m \in 1..Len(multi') :
             defs'[multi'[m].self].called <=> (multi'[m].locked /\ multi'[m].deferred = {})
       /\ (last'.op \in {"lock", "update", "append"} /\ multi[last'.d].locked)
             => /\ last'.err = "RuntimeError"
                /\ multi' = multi
                /\ defs' = defs
                /\ fails' = fails
       /\ (last'.op = "lock" /\ ~multi[last'.d].locked)
             => /\ last'.err = ""
                /\ multi'[last'.d].locked
       /\ (last'.op = "update" /\ ~multi[last'.d].locked) => last'.err = ""]_vars

\* A MultiDeferred that was added to after its construction was locked with
\* two children pending and settled when the second of them was called back.
C24_Witness ==
    /\ last.op = "callback"
    /\ \E m \in Constructed :
          /\ multi[m].locked
          /\ defs[multi[m].self].called
          /\ Len(multi[m].stream) > Len(multi[m].data[2])
          /\ defs[1].called /\ defs[2].called
          /\ defs[last.d].nreg > 0
          /\ ran[last.d][Len(ran[last.d])].fn[1] = "_deferred_done"

----------------------------------------------------------------------------
(* Properties of Connections and their consumers *)

\* The events the last operation fired, in order.
Fires(log) == SelectSeq(log, LAMBDA ev : ev.e = "fire")

\* The position in the log of the n-th event fired.
FiredAt(log, n) ==
    CHOOSE i \in 1..Len(log) :
        /\ log[i].e = "fire"
        /\ Cardinality({j \in 1..i : log[j].e = "fire"}) = n

\* C25: Connection.finished(consumer, result) on the current consumer fires
\* post_request of the Connection with the consumer, its listeners running
\* before anything else, then fires finish of the consumer, settling it with
\* result (with the consumer when result is omitted) while the two are still
\* linked, and leaves the Connection without current consumer and the
\* consumer without connection; on any other consumer it raises
\* RuntimeError, fires nothing and changes nothing.
C25_FinishedActsOnCurrent ==
    [][last'.op = "Connection.finished" =>
          IF conns[last'.d].current_consumer = last'.arg[1]
          THEN /\ last'.err = ""
               /\ Len(Fires(oplog')) = 2
               /\ Fires(oplog')[1].fns = <<"post_request">>
               /\ Fires(oplog')[1].o = <<"conn", last'.d>>
               /\ Fires(oplog')[1].v = <<"cons", last'.arg[1]>>
               /\ Fires(oplog')[1].st.consumer = last'.arg[1]
               /\ Len(Listens(oplog')) = Len(conns[last'.d].many.post_request)
               /\ \A i \in 1..Len(oplog') :
                     oplog'[i].e = "listen" =>
                        /\ FiredAt(oplog', 1) < i /\ i < FiredAt(oplog', 2)
                        /\ oplog'[i].v = <<"cons", last'.arg[1]>>
               /\ Fires(oplog')[2].fns = <<"finish">>
               /\ Fires(oplog')[2].o = <<"cons", last'.arg[1]>>
               /\ Fires(oplog')[2].v = (IF last'.arg[2] = NOTHING THEN <<"cons", last'.arg[1]>>
                                        ELSE last'.arg[2])
               /\ Fires(oplog')[2].st.connection = last'.d
               /\ Fires(oplog')[2].st.consumer = last'.arg[1]
               /\ ~defs[cons[last'.arg[1]].once.finish].called
               /\ defs'[cons[last'.arg[1]].once.finish].called
               /\ defs'[cons[last'.arg[1]].once.finish].result = Fires(oplog')[2].v
               /\ conns'[last'.d].current_consumer = 0
               /\ cons'[last'.arg[1]].connection = 0
          ELSE /\ last'.err = "RuntimeError"
               /\ oplog' = <<>>
               /\ defs' = defs
               /\ conns' = conns
               /\ cons' = cons
               /\ fails' = fails
               /\ ran' = ran]_vars

\* Connection.finished was refused for a consumer that is not the current
\* one, while the Connection has another consumer and a listener.
C25_Witness ==
    /\ last.op = "Connection.finished"
    /\ last.err = "RuntimeError"
    /\ conns[last.d].current_consumer \notin {0, last.arg[1]}
    /\ conns[last.d].many.post_request # <<>>
    /\ \E k \in 1..Len(cons) : defs[cons[k].once.finish].called

\* C26: a connection_lost(err) that returns has fired connection_lost of the
\* Connection with err (a Failure of it, or None) when the timer handle was
\* already cancelled and the current consumer still set, and then, when
\* there was a current consumer, has fired post_request and the finish of
\* that consumer with err; after it the Connection has no timer handle, no
\* armed timer and no current consumer, and that consumer no connection.
C26_ConnectionLost ==
    [][(last'.op = "connection_lost" /\ last'.err = "") =>
          /\ Len(Fires(oplog')) = (IF conns[last'.d].current_consumer = 0 THEN 1 ELSE 3)
          /\ Fires(oplog')[1].fns = <<"connection_lost">>
          /\ Fires(oplog')[1].o = <<"conn", last'.d>>
          /\ ~Fires(oplog')[1].st.timer
          /\ Fires(oplog')[1].st.consumer = conns[last'.d].current_consumer
          /\ IF last'.arg[1] = None THEN Fires(oplog')[1].v = None
             ELSE /\ is_failure(Fires(oplog')[1].v)
                  /\ Len(fails'[Fires(oplog')[1].v[2]]) = 1
                  /\ errs'[fails'[Fires(oplog')[1].v[2]][1]].kind = ExcClass(last'.arg[1][2])
          /\ defs'[conns[last'.d].once.connection_lost].called
          /\ defs'[conns[last'.d].once.connection_lost].v0 = Fires(oplog')[1].v
          /\ ~conns'[last'.d].idle_timeout
          /\ ~conns'[last'.d].armed
          /\ conns'[last'.d].current_consumer = 0
          /\ conns[last'.d].current_consumer # 0 =>
                /\ Fires(oplog')[2].fns = <<"post_request">>
                /\ Fires(oplog')[3].fns = <<"finish">>
                /\ Fires(oplog')[3].o = <<"cons", conns[last'.d].current_consumer>>
                /\ IF last'.arg[1] = None THEN Fires(oplog')[3].v = None
                   ELSE /\ is_failure(Fires(oplog')[3].v)
                        /\ Len(fails'[Fires(oplog')[3].v[2]]) = 1
                        /\ errs'[fails'[Fires(oplog')[3].v[2]][1]].kind
                              = ExcClass(last'.arg[1][2])
                /\ defs'[cons[conns[last'.d].current_consumer].once.finish].called
                /\ defs'[cons[conns[last'.d].current_consumer].once.finish].v0
                      = Fires(oplog')[3].v
                /\ cons'[conns[last'.d].current_consumer].connection = 0]_vars

\* A Connection with an idle timeout and a current consumer was lost on an
\* error: the finish of the consumer holds a Failure.
C26_Witness ==
    /\ last.op = "connection_lost" /\ last.arg = << <<"exc", 0>> >> /\ last.err = ""
    /\ conns[last.d].timeout = 30
    /\ Len(Fires(oplog)) = 3
    /\ \E k \in 1..Len(cons) :
          /\ Fires(oplog)[3].o = <<"cons", k>>
          /\ is_failure(defs[cons[k].once.finish].result)

\* C27: between operations the connection of a consumer is c exactly when
\* the current consumer of c is that consumer; a consumer whose finish has
\* fired has no connection and is the current consumer of none; and the
\* constructor of a consumer, which calls set_consumer, makes the consumer
\* the current one when the Connection had none and else raises
\* AssertionError, the Connection keeping the consumer it had.
C27_MutualReferences ==
    /\ \A c \in 1..Len(conns) : \A k \in 1..Len(cons) :
          cons[k].connection = c <=> conns[c].current_consumer = k
    /\ \A k \in 1..Len(cons) :
          defs[cons[k].once.finish].called =>
             /\ cons[k].connection = 0
             /\ \A c \in 1..Len(conns) : conns[c].current_consumer # k
    /\ last.op = "ProtocolConsumer" =>
          IF conns[last.d].current_consumer = Len(cons)
          THEN last.err = "" /\ cons[Len(cons)].connection = last.d
          ELSE /\ last.err = "AssertionError"
               /\ conns[last.d].current_consumer \in 1..(Len(cons) - 1)
               /\ cons[Len(cons)].connection = 0

\* A consumer was refused by a Connection that has a current consumer, while
\* the other Connection has none and a consumer has finished.
C27_Witness ==
    /\ last.op = "ProtocolConsumer" /\ last.err = "AssertionError"
    /\ cons[conns[last.d].current_consumer].connection = last.d
    /\ \E c \in 1..Len(conns) : conns[c].current_consumer = 0

----------------------------------------------------------------------------
(* Termination of the DeferredGenerator *)

\* The calls of DeferredGenerator g the event loop still has to run.
Scheduled(g) ==
    {i \in 1..Len(loop) :
        \/ loop[i] = <<"_consume", g>>
        \/ loop[i][1] = "_check_async" /\ loop[i][2][1] = g}

\* C29: no step of a DeferredGenerator, in its constructor or run by the
\* event loop, raises (none calls back a second time), a settled one has no
\* call left with the event loop and an unsettled one has exactly one; and
\* when the event loop runs its calls and every awaited Deferred settles or
\* times out, every DeferredGenerator is settled at some time.
C29_SettlesOnce ==
    /\ [](/\ last.op \in {"loop", "DeferredGenerator"} => last.err = ""
          /\ \A g \in 1..Len(gens) :
                IF defs[gens[g].self].called THEN Scheduled(g) = {}
                ELSE Cardinality(Scheduled(g)) = 1)
    /\ (Len(gens) >= 1) ~> (Len(gens) >= 1 /\ defs[gens[1].self].called)

\* A DeferredGenerator settled in a turn of the event loop that checked the
\* Deferred it waited for, after that Deferred was called back.
C29_Witness ==
    \E g \in 1..Len(gens) :
        /\ Polled(g, 1) /\ defs[1].called
        /\ defs[gens[g].self].called
        /\ ~gens[g].timedout
        /\ gens[g].stopped
----------------------------------------------------------------------------
(* The set of concurrent connections of the Producer *)

\* The count half of C31: concurrent_connections is at most received and,
\* with max_connections = M > 0, at most M.
ConcurrentBounded ==
    /\ concurrent_connections <= prod.received
    /\ prod.max_connections > 0 => concurrent_connections <= prod.max_connections

\* The Connections between their connection_made and their connection_lost,
\* as the values the set holds.
Connected ==
    {<<"conn", c>> : c \in {i \in 1..Len(conns) :
                              /\ defs[conns[i].once.connection_made].called
                              /\ ~defs[conns[i].once.connection_lost].called}}

\* C31: in every state concurrent_connections is at most received and, with
\* max_connections = M > 0, at most M, and every member of the set of
\* concurrent connections is a Connection that has had its connection_made
\* and not yet its connection_lost.
C31_ConcurrentSet ==
    /\ ConcurrentBounded
    /\ prod.conns \subseteq Connected

\* The membership half of C31 in the one direction the code keeps: a member
\* of the set has had its connection_made.
MembersWereMade ==
    prod.conns \subseteq
        {<<"conn", c>> : c \in {i \in 1..Len(conns) :
                                  defs[conns[i].once.connection_made].called}}
====
